---- MODULE Spec2Model ----
(***************************************************************************)
(* Battle engine of minesweeper-battle: the seeded board generator and the *)
(* board engine (lib/minesweeper.ts), the per-agent turn loop and the      *)
(* orchestrator (lib/battleRunner.ts) and the battle store                  *)
(* (lib/battleStore.ts).                                                    *)
(***************************************************************************)
EXTENDS Integers, Sequences, FiniteSets, TLC

VARIABLES
    config,         \* battle.config: [rows, cols, mineCount]
    models,         \* battle.models: the agent list, a sequence of ids
    boardSeed,      \* battle.boardSeed
    status,         \* battle.status
    modelStates,    \* battle.modelStates: agent -> ModelState
    rankings,       \* battle.rankings (<<>> while null)
    pc,             \* agent -> position of its async wrapper and turn loop
    sim,            \* agent -> the locals of its runModelSimulation call
    requests,       \* history: agent -> generateText requests sent so far
    last,           \* history: agent -> what its last response did
    harness,        \* environment: what the agents' responses are drawn from
    answered,       \* history: responses and failures delivered so far (when budgeted)
    log,            \* history: the events emitted for the battle (when logged)
    genIn,          \* function harness: the arguments of the function called
    genOut,         \* function harness: its result
    subscribers,    \* battle.subscribers: the clients whose stream listens, in insertion order
    sent,           \* client -> the SSE messages the last step sent on its stream
    written,        \* the persistence calls the last step made
    frameIndices,   \* battle.frameIndices: agent -> the index of its next frame
    db,             \* the key-value store and the persistence calls in flight
    heap            \* object harness: the board objects of one turn loop and who refers to them

vars == <<config, models, boardSeed, status, modelStates, rankings, pc, sim,
          requests, last, harness, answered, log, genIn, genOut, subscribers,
          sent, written, frameIndices, db, heap>>

\* a board that does not exist yet (board = null)
NoBoard == <<>>

\* ------------------------------------------------------------------------
\* Program constants
\* ------------------------------------------------------------------------
MAX_MOVES == 60
MAX_RETRIES == 3
\* the longest list of moves the makeMoves schema accepts
MAX_BATCH == 20

\* ------------------------------------------------------------------------
\* 32-bit arithmetic of seededRandom.  A word is <<hi, lo>>, two 16-bit
\* halves, so that no intermediate value leaves TLC's integer range.
\* ------------------------------------------------------------------------
H16 == 65536

RECURSIVE Xor16(_, _, _)
Xor16(a, b, n) ==
    IF n = 0 THEN 0
    ELSE (((a % 2) + (b % 2)) % 2) + 2 * Xor16(a \div 2, b \div 2, n - 1)

RECURSIVE Or16(_, _, _)
Or16(a, b, n) ==
    IF n = 0 THEN 0
    ELSE (IF (a % 2) = 1 \/ (b % 2) = 1 THEN 1 ELSE 0) + 2 * Or16(a \div 2, b \div 2, n - 1)

RECURSIVE Pow2(_)
Pow2(k) == IF k = 0 THEN 1 ELSE 2 * Pow2(k - 1)

\* a ^ b
WXor(a, b) == <<Xor16(a[1], b[1], 16), Xor16(a[2], b[2], 16)>>

\* a | k for a small constant k (1, 61)
WOrSmall(a, k) == <<a[1], Or16(a[2], k, 16)>>

\* a >>> k, 0 < k < 16
WShr(a, k) ==
    <<a[1] \div Pow2(k),
      (a[2] \div Pow2(k)) + (a[1] % Pow2(k)) * Pow2(16 - k)>>

\* (a + b) mod 2^32
WAdd(a, b) ==
    LET lo == a[2] + b[2]
    IN  <<(a[1] + b[1] + (lo \div H16)) % H16, lo % H16>>

\* the 24-bit product p0 = (x mod 256) * y and the product p1 = (x div 256) * y
\* put together: p0 + p1 * 256 as <<hi, lo>>
Join16(p0, p1) ==
    <<((p0 + (p1 % 256) * 256) \div H16) + (p1 \div 256),
      (p0 + (p1 % 256) * 256) % H16>>

\* the full 32-bit product of two 16-bit numbers, as <<hi, lo>>
Mul16(x, y) == Join16((x % 256) * y, (x \div 256) * y)

\* the low 32 bits of a product whose low halves multiply to m and whose
\* cross products are c1 and c2
LowWord(m, c1, c2) == <<(m[1] + c1[2] + c2[2]) % H16, m[2]>>

\* Math.imul(a, b): the low 32 bits of the product
WMul(a, b) == LowWord(Mul16(a[2], b[2]), Mul16(a[1], b[2]), Mul16(a[2], b[1]))

\* 0x6d2b79f5
Gamma == <<27947, 31221>>

RECURSIVE WTimes(_, _)
\* (n * w) mod 2^32 by repeated addition (n is small)
WTimes(n, w) == IF n = 0 THEN <<0, 0>> ELSE WAdd(w, WTimes(n - 1, w))

\* t = Math.imul(t ^ (t >>> 15), t | 1)
Mix1(t) == WMul(WXor(t, WShr(t, 15)), WOrSmall(t, 1))

\* t ^= t + Math.imul(t ^ (t >>> 7), t | 61)
Mix2(t) == WXor(t, WAdd(t, WMul(WXor(t, WShr(t, 7)), WOrSmall(t, 61))))

\* (t ^ (t >>> 14)) >>> 0
Mix3(t) == WXor(t, WShr(t, 14))

\* The word the n-th call (n >= 1) of the closure returned by
\* seededRandom(seed) produces before the division by 2^32.
seededRandom(seed, n) ==
    Mix3(Mix2(Mix1(WAdd(<<seed \div H16, seed % H16>>, WTimes(n, Gamma)))))

\* Math.floor(random() * k) for the word u = random() * 2^32 and a small k
FloorTimes(u, k) == ((u[1] * k) + ((u[2] * k) \div H16)) \div H16

\* ------------------------------------------------------------------------
\* Board engine
\* ------------------------------------------------------------------------
Abs(x) == IF x < 0 THEN -x ELSE x

Cells(cfg) == (0 .. cfg.rows - 1) \X (0 .. cfg.cols - 1)

\* the cells of the board in row-major order, as the nested for loops visit them
RowMajor(cfg) ==
    [k \in 1 .. cfg.rows * cfg.cols |-> <<(k - 1) \div cfg.cols, (k - 1) % cfg.cols>>]

\* no excludedCell argument
NoCell == <<>>

\* the exclusion test of generateMinePositions' first loop
InExcluded(p, excludedCell) ==
    /\ excludedCell # NoCell
    /\ Abs(p[1] - excludedCell[1]) <= 1
    /\ Abs(p[2] - excludedCell[2]) <= 1

RECURSIVE KeepLegal(_, _, _)
KeepLegal(s, excludedCell, k) ==
    IF k > Len(s) THEN <<>>
    ELSE (IF InExcluded(s[k], excludedCell) THEN <<>> ELSE <<s[k]>>)
         \o KeepLegal(s, excludedCell, k + 1)

allPositions(cfg, excludedCell) == KeepLegal(RowMajor(cfg), excludedCell, 1)

Swap(s, i, j) == [s EXCEPT ![i] = s[j], ![j] = s[i]]

RECURSIVE Shuffle(_, _, _, _)
\* the Fisher-Yates loop: i is the 0-based index of the code, n counts the
\* calls of random() made so far
Shuffle(s, i, seed, n) ==
    IF i <= 0 THEN s
    ELSE Shuffle(Swap(s, i + 1, FloorTimes(seededRandom(seed, n + 1), i + 1) + 1),
                 i - 1, seed, n + 1)

Min(a, b) == IF a < b THEN a ELSE b

\* shuffled.slice(0, Math.min(mineCount, shuffled.length))
Slice(shuffled, mineCount) == SubSeq(shuffled, 1, Min(mineCount, Len(shuffled)))

\* the Fisher-Yates shuffle of the legal positions
Shuffled(all, seed) == Shuffle(all, Len(all) - 1, seed, 0)

generateMinePositions(cfg, seed, excludedCell) ==
    Slice(Shuffled(allPositions(cfg, excludedCell), seed), cfg.mineCount)

\* the (up to 8) in-range neighbours of <<r, c>>, in the order of the
\* r_offset / c_offset loops
Offsets == <<<<-1, -1>>, <<-1, 0>>, <<-1, 1>>, <<0, -1>>, <<0, 1>>, <<1, -1>>, <<1, 0>>, <<1, 1>>>>

InRange(p, nrows, ncols) ==
    p[1] >= 0 /\ p[1] < nrows /\ p[2] >= 0 /\ p[2] < ncols

\* createBoard(config, firstClick, minePositions) with minePositions given:
\* the mines are placed at the in-range positions, then adjacentMines is
\* counted for every cell that is not a mine.
createBoard(cfg, minePositions) ==
    LET isMine(p) == \E k \in DOMAIN minePositions :
                        /\ minePositions[k] = p
                        /\ InRange(p, cfg.rows, cfg.cols)
        count(p) == Cardinality({k \in DOMAIN Offsets :
                        LET q == <<p[1] + Offsets[k][1], p[2] + Offsets[k][2]>>
                        IN  InRange(q, cfg.rows, cfg.cols) /\ isMine(q)})
    IN  [p \in Cells(cfg) |->
            [isMine |-> isMine(p),
             isRevealed |-> FALSE,
             isFlagged |-> FALSE,
             adjacentMines |-> IF isMine(p) THEN 0 ELSE count(p)]]

BoardRows(b) == Cardinality({p[1] : p \in DOMAIN b})
BoardCols(b) == Cardinality({p[2] : p \in DOMAIN b})

\* neighbour loops that queue nothing
EnqueueNone(b, p, k, queue, visited) == [queue |-> queue, visited |-> visited]

RECURSIVE Enqueue(_, _, _, _, _)
\* the neighbour loops of revealCell for the cell p, from offset k on:
\* every in-range neighbour not yet visited is marked visited and queued
Enqueue(b, p, k, queue, visited) ==
    IF k > Len(Offsets) THEN [queue |-> queue, visited |-> visited]
    ELSE LET q == <<p[1] + Offsets[k][1], p[2] + Offsets[k][2]>>
         IN  IF InRange(q, BoardRows(b), BoardCols(b)) /\ q \notin visited
             THEN Enqueue(b, p, k + 1, Append(queue, q), visited \cup {q})
             ELSE Enqueue(b, p, k + 1, queue, visited)

RECURSIVE FloodFill(_, _, _, _)
\* the while (queue.length > 0) loop of revealCell
FloodFill(b, queue, visited, revealedCount) ==
    IF queue = <<>> THEN [board |-> b, revealedCount |-> revealedCount, hitMine |-> FALSE]
    ELSE LET p == Head(queue)
             rest == Tail(queue)
         IN  IF b[p].isRevealed THEN FloodFill(b, rest, visited, revealedCount)
             ELSE LET b2 == [b EXCEPT ![p].isRevealed = TRUE]
                  IN  IF b[p].adjacentMines = 0
                      THEN LET e == Enqueue(b2, p, 1, rest, visited)
                           IN  FloodFill(b2, e.queue, e.visited, revealedCount + 1)
                      ELSE FloodFill(b2, rest, visited, revealedCount + 1)

\* a revealCell without the test of the target cell
revealCellUnguarded(b, p) ==
    IF b[p].isMine
    THEN [board |-> [b EXCEPT ![p].isRevealed = TRUE], revealedCount |-> 1, hitMine |-> TRUE]
    ELSE FloodFill(b, <<p>>, {p}, 0)

\* revealCell(board, row, col): the board after the call and the returned
\* {revealedCount, hitMine}
revealCell(b, p) ==
    IF b[p].isRevealed \/ b[p].isFlagged
    THEN [board |-> b, revealedCount |-> 0, hitMine |-> FALSE]
    ELSE IF b[p].isMine
    THEN [board |-> [b EXCEPT ![p].isRevealed = TRUE], revealedCount |-> 1, hitMine |-> TRUE]
    ELSE FloodFill(b, <<p>>, {p}, 0)

\* a flagCell that toggles the flag of a revealed cell too
flagCellAlways(b, p) == [b EXCEPT ![p].isFlagged = ~b[p].isFlagged]

\* flagCell(board, row, col): the board after the call
flagCell(b, p) ==
    IF ~b[p].isRevealed THEN [b EXCEPT ![p].isFlagged = ~b[p].isFlagged] ELSE b

\* ------------------------------------------------------------------------
\* Scoring (lib/scoring.ts)
\* ------------------------------------------------------------------------
TotalSafe(cfg) == (cfg.rows * cfg.cols) - cfg.mineCount

\* floor(n / d) for d > 0 and any integer n
FloorDiv(n, d) == IF n >= 0 THEN n \div d ELSE -(((-n) + d - 1) \div d)

\* Math.round(n / d) for d > 0: floor(n / d + 1/2)
RoundDiv(n, d) == FloorDiv((2 * n) + d, 2 * d)

Max(a, b) == IF a > b THEN a ELSE b

\* The numbers of calculateScore are IEEE 754 doubles.  A positive double is
\* the record [m, e]: the MantissaBits bits of an integer, most significant
\* first and the first of them 1, and the exponent of its last bit; its
\* value is m * 2^e.
MantissaBits == 53

\* Integers wider than 31 bits are computed in limbs of LimbBits bits
LimbBits == 20

Radix == 2 ^ LimbBits

Front(bits) == SubSeq(bits, 1, Len(bits) - 1)

Last(bits) == bits[Len(bits)]

RECURSIVE BitsToInt(_)
\* the integer of at most 31 bits
BitsToInt(bits) ==
    IF bits = <<>> THEN 0 ELSE (2 * BitsToInt(Front(bits))) + Last(bits)

\* the lowest width bits of the natural number n
Pad(n, width) == [i \in 1 .. width |-> (n \div (2 ^ (width - i))) % 2]

\* the bits from the first 1 on; bits holds a 1
Strip(bits) ==
    SubSeq(bits,
           CHOOSE i \in 1 .. Len(bits) :
               bits[i] = 1 /\ \A j \in 1 .. (i - 1) : bits[j] = 0,
           Len(bits))

\* the integer plus one
IncBits(bits) ==
    IF \A i \in 1 .. Len(bits) : bits[i] = 1
    THEN [i \in 1 .. (Len(bits) + 1) |-> IF i = 1 THEN 1 ELSE 0]
    ELSE [i \in 1 .. Len(bits) |->
             IF \E j \in (i + 1) .. Len(bits) : bits[j] = 0 THEN bits[i]
             ELSE 1 - bits[i]]

\* the limb of the integer that ends k bits before its last bit
Limb(bits, k) ==
    BitsToInt(SubSeq(bits, Max(1, (Len(bits) - k) - (LimbBits - 1)),
                     Len(bits) - k))

RECURSIVE Product(_, _, _)
\* limb k of the integer times the small number c, with the carry of the
\* limbs below it
Product(bits, c, k) ==
    (Limb(bits, k * LimbBits) * c)
        + (IF k = 0 THEN 0 ELSE Product(bits, c, k - 1) \div Radix)

\* the integer of at most three limbs times the small number c
MulSmall(bits, c) ==
    Strip(Pad(Product(bits, c, 2), LimbBits + 10)
          \o Pad(Product(bits, c, 1), LimbBits)
          \o Pad(Product(bits, c, 0), LimbBits))

\* round to nearest, ties to even: kept are the bits that stay, dropped the
\* bits that go
RoundEven(kept, dropped) ==
    IF /\ dropped # <<>>
       /\ dropped[1] = 1
       /\ \/ Last(kept) = 1
          \/ \E k \in 2 .. Len(dropped) : dropped[k] = 1
    THEN IncBits(kept)
    ELSE kept

\* the rounded bits r with the exponent e of their last bit, as a double
Normal(r, e) ==
    IF Len(r) > MantissaBits THEN [m |-> Front(r), e |-> e + 1]
    ELSE [m |-> r, e |-> e]

\* the double nearest to the number with the bits m, the first of them 1,
\* and the exponent e
Nearest(m, e) ==
    IF Len(m) <= MantissaBits
    THEN [m |-> m \o [i \in 1 .. (MantissaBits - Len(m)) |-> 0],
          e |-> e - (MantissaBits - Len(m))]
    ELSE Normal(RoundEven(SubSeq(m, 1, MantissaBits),
                          SubSeq(m, MantissaBits + 1, Len(m))),
                e + (Len(m) - MantissaBits))

RECURSIVE Remainder(_, _, _)
\* what is left of num / den (num < den < 2^11) after k limbs of the fraction
Remainder(num, den, k) ==
    IF k = 0 THEN num ELSE (Remainder(num, den, k - 1) * Radix) % den

\* the k-th limb of the fraction num / den
Digit(num, den, k) == (Remainder(num, den, k - 1) * Radix) \div den

FractionLimbs == 4

\* num / den for 0 < num < 2^LimbBits in binary: the integer part,
\* FractionLimbs limbs of the fraction, and a last bit that is 1 iff more
\* bits follow
Binary(num, den) ==
    Pad(num \div den, LimbBits)
    \o [i \in 1 .. (FractionLimbs * LimbBits) |->
           Pad(Digit(num % den, den, ((i - 1) \div LimbBits) + 1),
               LimbBits)[((i - 1) % LimbBits) + 1]]
    \o <<IF Remainder(num % den, den, FractionLimbs) = 0 THEN 0 ELSE 1>>

\* the double num / den, for num > 0 and den > 0
DoubleDiv(num, den) ==
    Nearest(Strip(Binary(num, den)), -((FractionLimbs * LimbBits) + 1))

\* the double c * x for a small natural c
DoubleTimes(c, x) == Nearest(MulSmall(x.m, c), x.e)

\* Math.floor(2 * x) for a double x below 2^30
FloorTwice(x) == BitsToInt(SubSeq(x.m, 1, Len(x.m) + x.e + 1))

\* Twice 100 * (safe / totalSafe) in doubles, rounded down
TwiceHundred(safe, totalSafe) ==
    FloorTwice(DoubleTimes(100, DoubleDiv(safe, totalSafe)))

\* the boards of the battles have at most TableCells cells
TableCells == 4

\* TwiceHundred, computed once for the boards of the battles
TwiceHundredTable ==
    [t \in 1 .. TableCells |-> [s \in 1 .. TableCells |-> TwiceHundred(s, t)]]

\* Twice 100 * safeRatio, rounded down: safeRatio is the double
\* safeRevealed / totalSafe, or 0
TwiceHundredRatio(safe, totalSafe) ==
    IF totalSafe > 0 /\ safe > 0
    THEN IF totalSafe <= TableCells /\ safe <= TableCells
         THEN TwiceHundredTable[totalSafe][safe]
         ELSE TwiceHundred(safe, totalSafe)
    ELSE 0

\* calculateScore, for moves >= 1.  The subtrahend is a multiple of 1/2:
\* (moves - 1) / 2 for a win, 50 * minesHit otherwise, and the difference of
\* the doubles is exact whenever it is positive; Math.round(x) is
\* floor(x + 1/2), so that the score is the floor of
\* (2 * (100 * safeRatio) - halves + 1) / 2.
calculateScore(o, safe, mv, hit, cfg) ==
    Max(0, FloorDiv((TwiceHundredRatio(safe, TotalSafe(cfg))
                       - (IF o = "win" THEN mv - 1 ELSE 100 * hit)) + 1, 2))

\* ------------------------------------------------------------------------
\* Battle store (lib/battleStore.ts).  A battle is the record
\* [status, modelStates, rankings]; emit maps a battle and an event to the
\* battle after the mutation.
\* ------------------------------------------------------------------------
InitialModelState ==
    [boardState |-> NoBoard, prevBoardState |-> NoBoard, status |-> "pending",
     outcome |-> "none", moves |-> 0, safeRevealed |-> 0, minesHit |-> 0,
     durationMs |-> 0]

\* an emit whose move branch leaves prevBoardState as it was
emitKeepsPrev(battle, event) ==
    IF event.type = "init"
    THEN [battle EXCEPT !.status = "running"]
    ELSE IF event.type = "move"
    THEN [battle EXCEPT
            !.modelStates[event.modelId].boardState = event.boardState,
            !.modelStates[event.modelId].status = "playing",
            !.modelStates[event.modelId].moves = @ + 1]
    ELSE IF event.type = "complete"
    THEN [battle EXCEPT
            !.modelStates[event.modelId].status = "complete",
            !.modelStates[event.modelId].outcome = event.outcome,
            !.modelStates[event.modelId].moves = event.moves,
            !.modelStates[event.modelId].safeRevealed = event.safeRevealed,
            !.modelStates[event.modelId].minesHit = event.minesHit,
            !.modelStates[event.modelId].durationMs = event.durationMs]
    ELSE IF event.type = "done"
    THEN [battle EXCEPT !.status = "complete", !.rankings = event.rankings]
    ELSE battle

emit(battle, event) ==
    IF event.type = "init"
    THEN [battle EXCEPT !.status = "running"]
    ELSE IF event.type = "move"
    THEN IF event.modelId \in DOMAIN battle.modelStates
         THEN LET modelState == battle.modelStates[event.modelId]
              IN  [battle EXCEPT
                     !.modelStates[event.modelId] =
                         [modelState EXCEPT
                            !.prevBoardState = modelState.boardState,
                            !.boardState = event.boardState,
                            !.status = "playing",
                            !.moves = modelState.moves + 1]]
         ELSE battle
    ELSE IF event.type = "complete"
    THEN IF event.modelId \in DOMAIN battle.modelStates
         THEN LET modelState == battle.modelStates[event.modelId]
              IN  [battle EXCEPT
                     !.modelStates[event.modelId] =
                         [modelState EXCEPT
                            !.status = "complete",
                            !.outcome = event.outcome,
                            !.moves = event.moves,
                            !.safeRevealed = event.safeRevealed,
                            !.minesHit = event.minesHit,
                            !.durationMs = event.durationMs]]
         ELSE battle
    ELSE IF event.type = "done"
    THEN [battle EXCEPT !.status = "complete", !.rankings = event.rankings]
    ELSE battle

\* only the last of the events reaches the battle
emitLast(battle, events) ==
    IF events = <<>> THEN battle ELSE emit(battle, events[Len(events)])

RECURSIVE emitAll(_, _)
\* the events of one synchronous stretch of code, emitted in order
emitAll(battle, events) ==
    IF events = <<>> THEN battle
    ELSE emitAll(emit(battle, Head(events)), Tail(events))

\* ------------------------------------------------------------------------
\* Agent turn loop (runModelSimulation, lib/battleRunner.ts)
\* ------------------------------------------------------------------------
\* reachedTotal and afterTotal are history fields: an applied safe reveal has
\* brought safeRevealed to totalSafeCells, and the number of moves applied
\* since then
InitialSim ==
    [board |-> NoBoard, prevBoard |-> NoBoard, moves |-> 0, safeRevealed |-> 0,
     outcome |-> "playing", minesHit |-> 0, retries |-> 0,
     moveSuccessful |-> FALSE, durationMs |-> 0, reachedTotal |-> FALSE,
     afterTotal |-> 0]

\* if (!board) { board = createBoard(config, {row, col}, generateMinePositions(...)) }
\* one board for all the agents: the first move of an agent goes on the
\* board another agent has, if one has
EnsureBoardShared(b, cell, cfg, seed) ==
    IF b # NoBoard THEN b
    ELSE IF \E x \in DOMAIN sim : sim[x].board # NoBoard
    THEN sim[CHOOSE x \in DOMAIN sim : sim[x].board # NoBoard].board
    ELSE createBoard(cfg, generateMinePositions(cfg, seed, cell))

EnsureBoard(b, cell, cfg, seed) ==
    IF b = NoBoard THEN createBoard(cfg, generateMinePositions(cfg, seed, cell)) ELSE b

\* cell.isRevealed || (action === 'reveal' && cell.isFlagged)
Unavailable(b, mv) ==
    b[mv.cell].isRevealed \/ (mv.action = "reveal" /\ b[mv.cell].isFlagged)

\* history: the reveal with result r, applied to the locals s, is safe, reveals
\* at least one cell and brings safeRevealed to totalSafeCells
ReachesTotal(s, r, cfg) ==
    /\ ~r.hitMine
    /\ r.revealedCount > 0
    /\ s.safeRevealed + r.revealedCount = TotalSafe(cfg)

\* a move event that carries the snapshot before the move as its board
MoveEventStale(a, mv, snapshot, prevSnapshot) ==
    [type |-> "move", modelId |-> a, action |-> mv.action, cell |-> mv.cell,
     boardState |-> prevSnapshot, prevBoardState |-> prevSnapshot]

\* the move event the wrapped onMove callback emits for a snapshot
MoveEvent(a, mv, snapshot, prevSnapshot) ==
    [type |-> "move", modelId |-> a, action |-> mv.action, cell |-> mv.cell,
     boardState |-> snapshot, prevBoardState |-> prevSnapshot]

\* revealCell or flagCell for the move mv on the board b
Played(b, mv) ==
    IF mv.action = "reveal"
    THEN revealCell(b, mv.cell)
    ELSE [board |-> flagCell(b, mv.cell), revealedCount |-> 0, hitMine |-> FALSE]

\* the locals after makeMove has applied a move with result r
AppliedOne(s, r, cfg) ==
    [s EXCEPT
       !.board = r.board,
       !.outcome = IF r.hitMine THEN "loss" ELSE @,
       !.minesHit = IF r.hitMine THEN 1 ELSE @,
       !.safeRevealed = @ + r.revealedCount - (IF r.hitMine THEN 1 ELSE 0),
       !.moves = @ + 1,
       !.moveSuccessful = TRUE,
       !.prevBoard = r.board,
       !.reachedTotal = @ \/ ReachesTotal(s, r, cfg),
       !.afterTotal = IF s.reachedTotal THEN @ + 1 ELSE @]

\* makeMove on the board b0 the first lines of execute have made sure of
makeMoveOn(a, s, mv, b0, cfg) ==
    IF Unavailable(b0, mv)
    THEN [sim |-> [s EXCEPT !.board = b0], threw |-> TRUE, events |-> <<>>,
          executed |-> <<>>, stoppedEarly |-> FALSE]
    ELSE [sim |-> AppliedOne(s, Played(b0, mv), cfg), threw |-> FALSE,
          events |-> <<MoveEvent(a, mv, Played(b0, mv).board, s.prevBoard)>>,
          executed |-> <<mv>>, stoppedEarly |-> FALSE]

\* execute of the makeMove tool.  Returns the locals after the call, whether
\* it threw, and the move events its onMove callback emitted.
makeMove(a, s, mv, cfg, seed) ==
    makeMoveOn(a, s, mv, EnsureBoard(s.board, mv.cell, cfg, seed), cfg)

\* the test that ends a batch after a mine was hit (the break at line 496)
BreakOnMine(hitMine) == hitMine

\* a batch that does not count the move that hits a mine
AppliedInBatchUncounted(s, r, cfg) ==
    [s EXCEPT
       !.board = r.board,
       !.outcome = IF r.hitMine THEN "loss" ELSE @,
       !.minesHit = IF r.hitMine THEN 1 ELSE @,
       !.safeRevealed = IF r.hitMine THEN @ ELSE @ + r.revealedCount,
       !.moves = IF r.hitMine THEN @ ELSE @ + 1,
       !.moveSuccessful = TRUE,
       !.prevBoard = r.board,
       !.reachedTotal = @ \/ ReachesTotal(s, r, cfg),
       !.afterTotal = IF s.reachedTotal THEN @ + 1 ELSE @]

\* the locals after makeMoves has applied a move with result r
AppliedInBatch(s, r, cfg) ==
    [s EXCEPT
       !.board = r.board,
       !.outcome = IF r.hitMine THEN "loss" ELSE @,
       !.minesHit = IF r.hitMine THEN 1 ELSE @,
       !.safeRevealed = IF r.hitMine THEN @ ELSE @ + r.revealedCount,
       !.moves = @ + 1,
       !.moveSuccessful = TRUE,
       !.prevBoard = r.board,
       !.reachedTotal = @ \/ ReachesTotal(s, r, cfg),
       !.afterTotal = IF s.reachedTotal THEN @ + 1 ELSE @]

RECURSIVE makeMovesLoop(_, _, _, _, _, _, _, _)
RECURSIVE makeMovesOn(_, _, _, _, _, _, _, _, _)
RECURSIVE makeMovesApplied(_, _, _, _, _, _, _, _, _)

\* the rest of an iteration once its move was applied with result r
makeMovesApplied(a, s, moveList, k, cfg, seed, executed, events, r) ==
    IF BreakOnMine(r.hitMine)
    THEN [sim |-> AppliedInBatch(s, r, cfg), threw |-> FALSE,
          events |-> Append(events, MoveEvent(a, moveList[k], r.board, s.prevBoard)),
          executed |-> Append(executed, moveList[k]), stoppedEarly |-> TRUE]
    ELSE makeMovesLoop(a, AppliedInBatch(s, r, cfg), moveList, k + 1, cfg, seed,
                       Append(executed, moveList[k]),
                       Append(events, MoveEvent(a, moveList[k], r.board, s.prevBoard)))

\* a batch that ends at an unavailable move without setting stoppedEarly
StoppedSilently(s, b0, executed, events) ==
    [sim |-> [s EXCEPT !.board = b0], threw |-> FALSE, events |-> events,
     executed |-> executed, stoppedEarly |-> FALSE]

\* the batch ends at an unavailable move: stoppedEarly = true; break
Stopped(s, b0, executed, events) ==
    [sim |-> [s EXCEPT !.board = b0], threw |-> FALSE, events |-> events,
     executed |-> executed, stoppedEarly |-> TRUE]

\* one iteration on the board b0 its first lines have made sure of
makeMovesOn(a, s, moveList, k, cfg, seed, executed, events, b0) ==
    IF Unavailable(b0, moveList[k])
    THEN Stopped(s, b0, executed, events)
    ELSE makeMovesApplied(a, s, moveList, k, cfg, seed, executed, events,
                          Played(b0, moveList[k]))

\* the for (const move of moveList) loop of the makeMoves tool, from the
\* k-th move on
makeMovesLoop(a, s, moveList, k, cfg, seed, executed, events) ==
    IF k > Len(moveList)
    THEN [sim |-> s, threw |-> FALSE, events |-> events, executed |-> executed,
          stoppedEarly |-> FALSE]
    ELSE IF s.outcome # "playing"
    THEN [sim |-> s, threw |-> FALSE, events |-> events, executed |-> executed,
          stoppedEarly |-> TRUE]
    ELSE makeMovesOn(a, s, moveList, k, cfg, seed, executed, events,
                     EnsureBoard(s.board, moveList[k].cell, cfg, seed))

\* execute of the makeMoves tool
makeMoves(a, s, moveList, cfg, seed) ==
    makeMovesLoop(a, s, moveList, 1, cfg, seed, <<>>, <<>>)

\* a catch block that counts the failure and never sets outcome = 'error'
CatchKeepsOutcome(s) == [s EXCEPT !.retries = @ + 1]

\* the catch block: retries++; if (retries >= MAX_RETRIES) outcome = 'error'
Catch(s) ==
    [s EXCEPT !.retries = @ + 1,
              !.outcome = IF s.retries + 1 >= MAX_RETRIES THEN "error" ELSE @]

\* what the try block makes of makeMove's result: a throw ends in the catch block
Caught(r) == IF r.threw THEN [r EXCEPT !.sim = Catch(r.sim)] ELSE r

\* One pass of the try block for a response: the tool call the response
\* holds is executed; a thrown execute, a response with no tool call and a
\* failed request all end in the catch block.
Attempt(a, s, resp, cfg, seed) ==
    IF resp.tool = "makeMove"
    THEN Caught(makeMove(a, s, resp.moves[1], cfg, seed))
    ELSE IF resp.tool = "makeMoves"
    THEN makeMoves(a, s, resp.moves, cfg, seed)
    ELSE [sim |-> Catch(s), threw |-> TRUE, events |-> <<>>, executed |-> <<>>,
          stoppedEarly |-> FALSE]

\* while (retries < MAX_RETRIES && !moveSuccessful)
InnerContinues(s) == s.retries < MAX_RETRIES /\ ~s.moveSuccessful

\* an outer loop condition that looks at the move count only
OuterIgnoresOutcome(s) == s.moves < MAX_MOVES

\* an outer loop that takes one more turn at MAX_MOVES
OuterOneMore(s) == s.outcome = "playing" /\ s.moves <= MAX_MOVES

\* while (outcome === 'playing' && moves < MAX_MOVES)
OuterContinues(s) == s.outcome = "playing" /\ s.moves < MAX_MOVES

\* if (safeRevealed === totalSafeCells) outcome = 'win'
WinCheck(s, cfg) ==
    IF s.safeRevealed = TotalSafe(cfg) THEN [s EXCEPT !.outcome = "win"] ELSE s

\* The head of the outer loop: a new turn starts (a request is sent,
\* returned = FALSE) or the loop is left and runModelSimulation returns.
EnterTurn(s) ==
    IF OuterContinues(s)
    THEN [sim |-> [s EXCEPT !.retries = 0, !.moveSuccessful = FALSE], returned |-> FALSE]
    ELSE [sim |-> [s EXCEPT !.outcome = IF @ = "playing" THEN "stuck" ELSE @],
          returned |-> TRUE]

\* The code from the end of one attempt to the next await or to the return.
Advance(s, cfg) ==
    IF InnerContinues(s)
    THEN [sim |-> s, returned |-> FALSE]
    ELSE IF ~s.moveSuccessful
    THEN [sim |-> [s EXCEPT !.outcome = IF @ # "error" THEN "stuck" ELSE @],
          returned |-> TRUE]
    ELSE EnterTurn(WinCheck(s, cfg))

\* ------------------------------------------------------------------------
\* Ranking (runBattle, lib/battleRunner.ts)
\* ------------------------------------------------------------------------
\* a priority table with stuck and loss exchanged
outcomeOrderLossFirst(o) ==
    CASE o = "win" -> 1
      [] o = "loss" -> 2
      [] o = "stuck" -> 3
      [] o = "error" -> 4
      [] OTHER -> 5

outcomeOrder(o) ==
    CASE o = "win" -> 1
      [] o = "stuck" -> 2
      [] o = "loss" -> 3
      [] o = "error" -> 4
      [] OTHER -> 5

\* the comparator of the sort: negative when x ranks before y
compareResults(x, y) ==
    IF x.score # y.score THEN y.score - x.score
    ELSE IF outcomeOrder(x.outcome) # outcomeOrder(y.outcome)
    THEN outcomeOrder(x.outcome) - outcomeOrder(y.outcome)
    ELSE IF x.moves # y.moves THEN x.moves - y.moves
    ELSE x.durationMs - y.durationMs

RECURSIVE InsertSorted(_, _)
\* x placed after every element that does not rank after it
InsertSorted(sorted, x) ==
    IF sorted = <<>> THEN <<x>>
    ELSE IF compareResults(Head(sorted), x) > 0 THEN <<x>> \o sorted
    ELSE <<Head(sorted)>> \o InsertSorted(Tail(sorted), x)

RECURSIVE SortResults(_, _)
\* Array.prototype.sort with compareResults: a stable sort
SortResults(list, k) ==
    IF k = 0 THEN <<>> ELSE InsertSorted(SortResults(list, k - 1), list[k])

\* the GameResult runBattle builds from an agent's returned result
fullResult(a, result, ms, cfg) ==
    [modelId |-> a,
     outcome |-> result.outcome,
     score |-> calculateScore(result.outcome, result.safeRevealed, result.moves,
                              ms.minesHit, cfg),
     moves |-> result.moves,
     durationMs |-> result.durationMs,
     safeRevealed |-> result.safeRevealed,
     totalSafe |-> TotalSafe(cfg),
     minesHit |-> ms.minesHit]

\* ------------------------------------------------------------------------
\* Bounds of the model and the agents' inputs
\* ------------------------------------------------------------------------
\* seeds 0 .. MaxSeed (the route draws floor(random() * 2147483647))
MaxSeed == 1
\* makeMoves batches of 1 .. MaxBatch moves (the schema allows up to 20)
MaxBatch == 2
\* durationMs is drawn from 0 .. MaxDuration
MaxDuration == 1
\* in Spec an agent is answered at most MaxAnswers times
MaxAnswers == 1
\* in SpecLoop the agent is answered at most LoopAnswers times
LoopAnswers == 3
\* in SpecRetry the agent is answered at most RetryAnswers times
RetryAnswers == 5
\* in SpecRequests and SpecRetry the batches hold 1 .. CountedBatch moves
CountedBatch == 1
\* the request counter stops counting at ReqCap
ReqCap == 181
\* the generator is called for boards of 1 .. MaxSide rows and columns
MaxSide == 3
\* in SpecEvents the answers to the agents hold EventMoves moves in all
EventMoves == 2
\* the results that are ranked hold up to RankMoves moves
RankMoves == 1

\* calculateScore is called with up to ScoreMoves moves
ScoreMoves == 10
\* a battle has up to MaxListeners subscribers when emit is called
MaxListeners == 3
\* in SpecStream the answers to the agents hold StreamMoves moves in all
StreamMoves == 2

Range(s) == {s[k] : k \in DOMAIN s}

Agents == Range(models)

MoveSet(cfg) == [action : {"reveal", "flag"}, cell : Cells(cfg)]

RECURSIVE SeqsUpTo(_, _)
\* the non-empty sequences over S of length <= n
SeqsUpTo(S, n) ==
    IF n = 0 THEN {}
    ELSE LET shorter == SeqsUpTo(S, n - 1)
         IN  {<<x>> : x \in S} \cup shorter \cup {Append(q, x) : q \in shorter, x \in S}

\* what a request to an agent can return: a makeMove call, a makeMoves call
\* of 1 .. maxBatch moves, no tool call, or a failure
Responses(cfg, maxBatch) ==
    {[tool |-> "makeMove", moves |-> <<m>>] : m \in MoveSet(cfg)}
    \cup {[tool |-> "makeMoves", moves |-> q] : q \in SeqsUpTo(MoveSet(cfg), maxBatch)}
    \cup {[tool |-> "none", moves |-> <<>>], [tool |-> "failure", moves |-> <<>>]}

\* last[a] between two responses
NoResult == [tool |-> "idle", threw |-> FALSE, executed |-> 0, total |-> 0,
             stoppedEarly |-> FALSE, requested |-> <<>>, applied |-> <<>>,
             callbacks |-> 0]

\* the request counter after one more request
CountRequest(n) == IF harness.counting THEN Min(n + 1, ReqCap) ELSE n

\* ------------------------------------------------------------------------
\* Actions
\* ------------------------------------------------------------------------
Battle == [status |-> status, modelStates |-> modelStates, rankings |-> rankings]

\* the log after the events were handed to battleStore.emit
Logged(events) == IF harness.logging THEN log \o events ELSE log

\* the clients that open the battle's event stream
Clients == {"c1", "c2"}

NoneSent == [c \in Clients |-> <<>>]

\* encodeBoard: per cell M or the count if revealed, else F if flagged, else
\* H; the string is kept as the map from the cells to their characters
encodeBoard(b) ==
    [p \in DOMAIN b |->
        IF b[p].isRevealed
        THEN IF b[p].isMine THEN "M" ELSE ToString(b[p].adjacentMines)
        ELSE IF b[p].isFlagged THEN "F" ELSE "H"]

\* the string encodeBoard returns, as the list of its characters: the
\* characters of each row joined, the rows joined by a line feed
CharRows(chars, nrows, ncols) ==
    [r \in 1 .. nrows |-> [c \in 1 .. ncols |-> chars[<<r - 1, c - 1>>]]]

Lines(b) == CharRows(encodeBoard(b), BoardRows(b), BoardCols(b))

RECURSIVE Join(_, _)
\* lines.join('\n'), from line k on
Join(lines, k) ==
    IF k > Len(lines) THEN <<>>
    ELSE IF k = Len(lines) THEN lines[k]
    ELSE lines[k] \o <<"\n">> \o Join(lines, k + 1)

EncodedText(b) == Join(Lines(b), 1)

RECURSIVE Split(_, _, _)
\* encoded.split('\n'): the lines of text from character k on, line being
\* the characters of the current line read so far
Split(text, k, line) ==
    IF k > Len(text) THEN <<line>>
    ELSE IF text[k] = "\n" THEN <<line>> \o Split(text, k + 1, <<>>)
    ELSE Split(text, k + 1, Append(line, text[k]))

\* the characters '0' .. '8'
DigitChars == {ToString(n) : n \in 0 .. 8}

\* Number(char) for one of these characters
Number(char) == CHOOSE n \in 0 .. 8 : ToString(n) = char

\* the value decodeBoard pushes for the character at column c of line (a
\* missing character reads as H); a number is kept as its digits, as Visible
\* keeps it
DecodedLoose(line, c) ==
    IF c > Len(line) THEN "H"
    ELSE IF line[c] \in {"M", "F"} THEN line[c]
    ELSE IF line[c] \in DigitChars \cup {"9"} THEN line[c]
    ELSE "H"

Decoded(line, c) ==
    IF c > Len(line) THEN "H"
    ELSE IF line[c] = "M" THEN "M"
    ELSE IF line[c] = "F" THEN "F"
    ELSE IF line[c] \in DigitChars THEN ToString(Number(line[c]))
    ELSE "H"

\* lines[rowIdx] || ''
LineAt(lines, r) == IF r <= Len(lines) THEN lines[r] ELSE <<>>

\* the loops of decodeBoard over the lines of the text
DecodedLines(lines, nrows, ncols) ==
    [r \in 1 .. nrows |-> [c \in 1 .. ncols |-> Decoded(LineAt(lines, r), c)]]

\* a decodeBoard that takes every digit for a count
decodeBoardLoose(encoded, nrows, ncols) ==
    [r \in 1 .. nrows |->
        [c \in 1 .. ncols |-> DecodedLoose(LineAt(Split(encoded, 1, <<>>), r), c)]]

\* decodeBoard(encoded, rows, cols): the rows of visible values
decodeBoard(encoded, nrows, ncols) ==
    DecodedLines(Split(encoded, 1, <<>>), nrows, ncols)

\* the visible value getDelta compares: the count of a revealed cell (of a
\* revealed mine too), F, or H; H for every cell of a missing board.  The
\* count is kept as its digits.
Visible(b, p) ==
    IF b = NoBoard THEN "H"
    ELSE IF p \notin DOMAIN b THEN "H"
    ELSE IF b[p].isRevealed THEN ToString(b[p].adjacentMines)
    ELSE IF b[p].isFlagged THEN "F" ELSE "H"

\* getVisibleBoard(board): the rows of visible values
getVisibleBoard(b) ==
    [r \in 1 .. BoardRows(b) |->
        [c \in 1 .. BoardCols(b) |-> Visible(b, <<r - 1, c - 1>>)]]

\* the cells the loops of getDelta push, in the order they visit them
Changed(prev, curr, order) ==
    SelectSeq(order, LAMBDA q : Visible(prev, q) # Visible(curr, q))

\* the [row, col, value] entries of the cells pushed
Entries(curr, cells) ==
    [k \in DOMAIN cells |-> <<cells[k][1], cells[k][2], Visible(curr, cells[k])>>]

\* a getDelta without the test of the change: an entry for every cell
getDeltaAll(prev, curr) ==
    Entries(curr, RowMajor([rows |-> BoardRows(curr), cols |-> BoardCols(curr)]))

\* getDelta(prev, curr): an entry with the new value for each cell whose
\* visible value changed, in row-major order (NoBoard stands for null)
getDelta(prev, curr) ==
    Entries(curr, Changed(prev, curr,
                          RowMajor([rows |-> BoardRows(curr),
                                    cols |-> BoardCols(curr)])))

\* the SSE message of a move on the board curr after prev
MoveMessage(a, action, cell, prev, curr) ==
    [type |-> "move", modelId |-> a, action |-> action, cell |-> cell,
     board |-> encodeBoard(curr), delta |-> getDelta(prev, curr)]

\* the SSE message sendBattleEvent sends for an event: its type and the
\* payload of eventPayloads
Message(event) ==
    IF event.type = "move"
    THEN MoveMessage(event.modelId, event.action, event.cell,
                     event.prevBoardState, event.boardState)
    ELSE event

\* the persistence call emit makes for an event
Write(event) ==
    IF event.type = "move" THEN [call |-> "insertFrame", modelId |-> event.modelId]
    ELSE IF event.type = "complete"
    THEN [call |-> "insertResult", modelId |-> event.modelId]
    ELSE [call |-> "updateBattleCompletion", modelId |-> "none"]

\* every event is persisted
PersistedAll(events) == events

\* the events emit persists
Persisted(events) ==
    SelectSeq(events, LAMBDA e : e.type \in {"move", "complete", "done"})

\* the persistence calls of the events
Writes(persisted) == [k \in DOMAIN persisted |-> Write(persisted[k])]

\* the store behind getKv(): the battle's metadata (none or one), each
\* agent's frames, the results in the order of their keys, the ids of
\* battles:completed; a missing key reads as the empty list
EmptyStore(agents) ==
    [battle |-> <<>>, frames |-> [a \in agents |-> <<>>], results |-> <<>>,
     completed |-> <<>>]

\* no objects followed
NoHeap == <<>>

\* no store followed: no call in flight, nothing logged by a catch handler,
\* no rejection left unhandled
NoDb == [store |-> <<>>, calls |-> <<>>, errors |-> 0, unhandled |-> 0]

\* emptyBoard of createBattle
EmptyBoard(cfg) ==
    [p \in Cells(cfg) |->
        [isMine |-> FALSE, isRevealed |-> FALSE, isFlagged |-> FALSE,
         adjacentMines |-> 0]]

\* the calls of the db functions, each an async function at its first await:
\* arg is what it was called with, read what its get returned with its
\* change applied
insertBattle(cfg, agents, seed) ==
    [call |-> "insertBattle", modelId |-> "none", at |-> "set",
     arg |-> [config |-> cfg, models |-> agents, status |-> "pending",
              rankings |-> <<>>, boardSeed |-> seed, completed |-> FALSE],
     read |-> <<>>]

insertFrame(a, frameIndex, action, cell, boardState) ==
    [call |-> "insertFrame", modelId |-> a, at |-> "get",
     arg |-> [frameIndex |-> frameIndex, action |-> action, cell |-> cell,
              boardState |-> boardState],
     read |-> <<>>]

insertResult(a, result) ==
    [call |-> "insertResult", modelId |-> a, at |-> "get", arg |-> result,
     read |-> <<>>]

updateBattleCompletion(st, ranks) ==
    [call |-> "updateBattleCompletion", modelId |-> "none", at |-> "get",
     arg |-> [status |-> st, rankings |-> ranks], read |-> <<>>]

\* the calls createBattle makes: insertBattle, then the empty frame 0 of
\* each agent
CreateCalls(cfg, agents, seed) ==
    <<insertBattle(cfg, agents, seed)>>
        \o [k \in DOMAIN agents |->
               insertFrame(agents[k], 0, "none", NoCell, EmptyBoard(cfg))]

\* the result emit stores for a complete event
storedResult(event, cfg) ==
    [modelId |-> event.modelId,
     outcome |-> event.outcome,
     score |-> calculateScore(event.outcome, event.safeRevealed, event.moves,
                              event.minesHit, cfg),
     moves |-> event.moves,
     durationMs |-> event.durationMs,
     safeRevealed |-> event.safeRevealed,
     totalSafe |-> TotalSafe(cfg),
     minesHit |-> event.minesHit]

\* the move events for agent a among the first n of the events
MovesOf(events, a, n) ==
    Cardinality({j \in 1 .. n : events[j].type = "move" /\ events[j].modelId = a})

\* the db call emit makes for the k-th of the events, the frame index read
\* from battle.frameIndices as the earlier events left it
Issue(events, k) ==
    LET event == events[k]
    IN  IF event.type = "move"
        THEN insertFrame(event.modelId,
                         frameIndices[event.modelId]
                             + MovesOf(events, event.modelId, k - 1),
                         event.action, event.cell, event.boardState)
        ELSE IF event.type = "complete"
        THEN insertResult(event.modelId, storedResult(event, config))
        ELSE updateBattleCompletion("complete", event.rankings)

Issued(persisted) == [k \in DOMAIN persisted |-> Issue(persisted, k)]

\* battleStore.emit for each of the events: beside the mutation of the
\* battle, the persistence calls and the fan-out to the streams subscribed
Emits(events) ==
    /\ log' = Logged(events)
    /\ sent' = [c \in Clients |->
                  IF c \in Range(subscribers)
                  THEN [k \in DOMAIN events |-> Message(events[k])]
                  ELSE <<>>]
    /\ written' = Writes(Persisted(events))
    /\ frameIndices' = [a \in DOMAIN frameIndices |->
                          frameIndices[a] + MovesOf(events, a, Len(events))]
    /\ db' = IF harness.persist
             THEN [db EXCEPT !.calls = @ \o Issued(Persisted(events))]
             ELSE db
    /\ heap' = heap

\* the environment delivers one more answer to an agent: a call of cost moves
\* (a failure counts as one)
Budgeted(cost) ==
    /\ harness.budget < 0 \/ answered + cost <= harness.budget
    /\ answered' = IF harness.budget < 0 THEN answered ELSE answered + cost

\* the longest batch the environment may still answer with
BatchCap ==
    IF harness.budget < 0 THEN harness.maxBatch
    ELSE Min(harness.maxBatch, harness.budget - answered)

\* the modelId of the run a of models.map: the battle's list may name one
\* model more than once, and then several runs carry the same modelId
modelIdOf(a) ==
    IF a \in DOMAIN harness.modelIds THEN harness.modelIds[a] ELSE a

\* the init event of runBattle
initEvent == [type |-> "init"]

\* runBattle up to its first suspension: a missing (zero) boardSeed throws
\* before anything is emitted; otherwise init is emitted and every agent's
\* loop runs up to its first request.
RunBattle ==
    /\ status = "pending"
    /\ \A a \in Agents : pc[a] = "idle"
    /\ IF boardSeed = 0
       THEN /\ pc' = [a \in Agents |-> "aborted"]
            /\ UNCHANGED <<status, sim, requests>>
            /\ Emits(<<>>)
       ELSE /\ status' = emit(Battle, initEvent).status
            /\ Emits(<<initEvent>>)
            /\ sim' = [a \in Agents |-> EnterTurn(sim[a]).sim]
            /\ pc' = [a \in Agents |-> "await"]
            /\ requests' = [a \in Agents |-> CountRequest(requests[a])]
    /\ UNCHANGED <<config, models, boardSeed, modelStates, rankings, last, harness,
                   answered, genIn, genOut,
                   subscribers>>

\* the attempt for the response resp has ended with the result r
Responded(a, resp, r) ==
    /\ sim' = [sim EXCEPT ![a] = r.sim]
    /\ modelStates' = emitAll(Battle, r.events).modelStates
    /\ Emits(r.events)
    /\ last' = [last EXCEPT ![a] =
                  [tool |-> resp.tool, threw |-> r.threw,
                   executed |-> Len(r.executed), total |-> Len(resp.moves),
                   stoppedEarly |-> r.stoppedEarly, requested |-> resp.moves,
                   applied |-> r.executed, callbacks |-> Len(r.events)]]

\* a request to agent a returns: the tool call is executed (moves applied,
\* move events emitted) or the attempt fails
\* what the environment may answer the pending request of agent a with: any
\* response, or the one the script holds for the request of that number
Offered(a) ==
    IF harness.script = <<>> THEN Responses(config, BatchCap)
    ELSE {harness.script[k] : k \in {requests[a]} \cap DOMAIN harness.script}

Respond(a) ==
    /\ pc[a] = "await"
    /\ harness.limit < 0 \/ requests[a] <= harness.limit
    /\ \E resp \in Offered(a) :
         /\ Budgeted(Max(1, Len(resp.moves)))
         /\ Responded(a, resp, Attempt(modelIdOf(a), sim[a], resp, config, boardSeed))
    /\ pc' = [pc EXCEPT ![a] = "loop"]
    /\ UNCHANGED <<config, models, boardSeed, status, rankings, requests, harness,
                   genIn, genOut,
                   subscribers>>

\* agent a's loop has gone on to adv
Advanced(a, adv) ==
    IF adv.returned
    THEN /\ \E d \in 0 .. MaxDuration :
              sim' = [sim EXCEPT ![a] = [adv.sim EXCEPT !.durationMs = d]]
         /\ pc' = [pc EXCEPT ![a] = "returned"]
         /\ UNCHANGED requests
    ELSE /\ sim' = [sim EXCEPT ![a] = adv.sim]
         /\ pc' = [pc EXCEPT ![a] = "await"]
         /\ requests' = [requests EXCEPT ![a] = CountRequest(@)]

\* agent a's loop goes on after an attempt: to the next request, or out of
\* the loops to the return of runModelSimulation
LoopStep(a) ==
    /\ pc[a] = "loop"
    /\ Advanced(a, Advance(sim[a], config))
    /\ last' = [last EXCEPT ![a] = NoResult]
    /\ Emits(<<>>)
    /\ UNCHANGED <<config, models, boardSeed, status, modelStates, rankings, harness,
                   answered, genIn, genOut, subscribers>>

\* the complete event of agent a, emitted when its runModelSimulation returned
completeEvent(a, result) ==
    [type |-> "complete", modelId |-> a, outcome |-> result.outcome,
     moves |-> result.moves, safeRevealed |-> result.safeRevealed,
     minesHit |-> result.minesHit, durationMs |-> result.durationMs]

\* runModelSimulation resolved: the wrapper emits the agent's complete event
EmitComplete(a) ==
    /\ pc[a] = "returned"
    /\ modelStates' = emit(Battle, completeEvent(modelIdOf(a), sim[a])).modelStates
    /\ Emits(<<completeEvent(modelIdOf(a), sim[a])>>)
    /\ pc' = [pc EXCEPT ![a] = "complete"]
    /\ UNCHANGED <<config, models, boardSeed, status, rankings, sim, requests, last,
                   harness, answered, genIn, genOut,
                   subscribers>>

\* the result the wrapper's catch block returns
ErrorResult ==
    [outcome |-> "error", moves |-> 0, durationMs |-> 0, safeRevealed |-> 0,
     minesHit |-> 0]

\* the awaited runModelSimulation of agent a rejects while its request is
\* pending: the wrapper's catch block emits complete with the error result
Throw(a) ==
    /\ pc[a] = "await"
    /\ Budgeted(1)
    /\ modelStates' = emit(Battle, completeEvent(modelIdOf(a), ErrorResult)).modelStates
    /\ Emits(<<completeEvent(modelIdOf(a), ErrorResult)>>)
    /\ pc' = [pc EXCEPT ![a] = "failed"]
    /\ UNCHANGED <<config, models, boardSeed, status, rankings, sim, requests, last,
                   harness, genIn, genOut,
                   subscribers>>

\* the value the wrapper of agent a resolved with
resultOf(a) == IF pc[a] = "failed" THEN ErrorResult ELSE sim[a]

\* the agents whose wrapper did not take the catch block
Resolved == SelectSeq(models, LAMBDA a : pc[a] # "failed")

\* results that leave out the agents whose simulation rejected
fullResultsOfResolved ==
    [k \in DOMAIN Resolved |->
        fullResult(Resolved[k], sim[Resolved[k]], modelStates[Resolved[k]], config)]

\* fullResults before the sort, in the order of battle.models
fullResults ==
    [k \in DOMAIN models |->
        fullResult(modelIdOf(models[k]), resultOf(models[k]),
                   modelStates[modelIdOf(models[k])], config)]

\* the battle has become b
Becomes(b) ==
    /\ status' = b.status
    /\ rankings' = b.rankings

\* the done event of runBattle
doneEvent ==
    [type |-> "done", rankings |-> SortResults(fullResults, Len(fullResults))]

\* Promise.allSettled resolved: the rankings are computed and done is emitted
Done ==
    /\ status = "running"
    /\ \A a \in Agents : pc[a] \in {"complete", "failed"}
    /\ Becomes(emit(Battle, doneEvent))
    /\ Emits(<<doneEvent>>)
    /\ UNCHANGED <<config, models, boardSeed, modelStates, pc, sim, requests, last,
                   harness, answered, genIn, genOut,
                   subscribers>>

Next ==
    \/ RunBattle
    \/ \E a \in Agents : Respond(a)
    \/ \E a \in Agents : LoopStep(a)
    \/ \E a \in Agents : EmitComplete(a)
    \/ Done

\* the steps of a battle in which a simulation may also reject
NextThrowing ==
    \/ Next
    \/ \E a \in Agents : Throw(a)

\* ------------------------------------------------------------------------
\* Specifications
\* ------------------------------------------------------------------------
\* the keys of the modelStates map createBattle builds from the list
ModelIds(runs, h) ==
    {IF a \in DOMAIN h.modelIds THEN h.modelIds[a] ELSE a : a \in Range(runs)}

\* the state after createBattle(config, models, boardSeed)
BattleInit(cfgs, agentLists, seeds, h) ==
    /\ config \in cfgs
    /\ models \in agentLists
    /\ boardSeed \in seeds
    /\ status = "pending"
    /\ modelStates = [a \in ModelIds(models, h) |-> InitialModelState]
    /\ rankings = <<>>
    /\ pc = [a \in Range(models) |-> "idle"]
    /\ sim = [a \in Range(models) |-> InitialSim]
    /\ requests = [a \in Range(models) |-> 0]
    /\ last = [a \in Range(models) |-> NoResult]
    /\ harness = h
    /\ answered = 0
    /\ log = <<>>
    /\ genIn = <<>>
    /\ genOut = <<>>
    /\ subscribers = <<>>
    /\ sent = NoneSent
    /\ written = <<>>
    /\ frameIndices = [a \in ModelIds(models, h) |-> 0]
    /\ db = IF h.persist
            THEN [store |-> EmptyStore(Range(models)),
                  calls |-> CreateCalls(config, models, boardSeed),
                  errors |-> 0, unhandled |-> 0]
            ELSE NoDb
    /\ heap = NoHeap

Cfg(r, c, m) == [rows |-> r, cols |-> c, mineCount |-> m]

\* an environment that answers an agent up to limit times (-1: without limit)
\* with calls of up to maxBatch moves, with or without the requests counted;
\* no event log, no budget on the answers
Harness(limit, counting, maxBatch) ==
    [limit |-> limit, counting |-> counting, maxBatch |-> maxBatch,
     logging |-> FALSE, budget |-> -1, persist |-> FALSE, faults |-> 0,
     script |-> <<>>, modelIds |-> <<>>]

\* a battle of two agents, each answered at most MaxAnswers times
Init ==
    BattleInit({Cfg(1, 1, 0), Cfg(1, 4, 1)}, {<<"m1", "m2">>}, 0 .. MaxSeed,
               Harness(MaxAnswers, TRUE, MaxBatch))

Spec == Init /\ [][Next]_vars

\* one agent, answered at most LoopAnswers times
LoopInit ==
    BattleInit({Cfg(1, 1, 0), Cfg(1, 3, 1), Cfg(1, 3, 2)}, {<<"m1">>}, 1 .. MaxSeed,
               Harness(LoopAnswers, TRUE, MaxBatch))

SpecLoop == LoopInit /\ [][Next]_vars

\* one agent, answered at most RetryAnswers times with calls of one move
RetryInit ==
    BattleInit({Cfg(1, 1, 0), Cfg(1, 3, 1)}, {<<"m1">>}, 1 .. MaxSeed,
               Harness(RetryAnswers, TRUE, CountedBatch))

SpecRetry == RetryInit /\ [][Next]_vars

\* one agent played to the end of its turn loop, whatever it answers
LongInit ==
    BattleInit({Cfg(1, 3, 1)}, {<<"m1">>}, 1 .. MaxSeed,
               Harness(-1, FALSE, MaxBatch))

SpecLong == LongInit /\ [][Next]_vars

\* Every request returns and the program takes every step it can take: the
\* event loop runs each continuation that is ready.
Fairness ==
    /\ WF_vars(RunBattle)
    /\ WF_vars(Respond("m1"))
    /\ WF_vars(LoopStep("m1"))
    /\ WF_vars(EmitComplete("m1"))
    /\ WF_vars(Done)

FairSpecLong == LongInit /\ [][Next]_vars /\ Fairness

\* an environment whose answers hold budget moves in all, in calls of any
\* size the makeMoves schema accepts, with the battle's events logged
Logging(budget) ==
    [limit |-> -1, counting |-> TRUE, maxBatch |-> MAX_BATCH,
     logging |-> TRUE, budget |-> budget, persist |-> FALSE, faults |-> 0,
     script |-> <<>>, modelIds |-> <<>>]

\* two agents whose events are logged and whose simulations may reject; the
\* answers of the environment hold EventMoves moves in all
EventsInit ==
    BattleInit({Cfg(1, 3, 1)}, {<<"m1", "m2">>}, 0 .. MaxSeed, Logging(EventMoves))

SpecEvents == EventsInit /\ [][NextThrowing]_vars

\* the same two agents, every runModelSimulation running to its return
SpecMoves == EventsInit /\ [][Next]_vars

\* the moves the answers to the two runs of a repeated model hold in all
RepeatMoves == 3

\* a battle whose list names the model m1 twice, as createBattleSchema
\* admits (an array of 1 to 10 model names, not required to differ): two
\* runs, m1 and m1#2, of the one modelId m1
RepeatedInit ==
    BattleInit({Cfg(1, 3, 1)}, {<<"m1", "m1#2">>}, {1},
               [Logging(RepeatMoves) EXCEPT
                  !.modelIds = [a \in {"m1", "m1#2"} |-> "m1"]])

SpecRepeated == RepeatedInit /\ [][Next]_vars

\* the moves the answers to the agent of SpecDelta hold in all
DeltaMoves == 3

\* one agent on the 2x3 board with 1 mine, its events logged
DeltaInit ==
    BattleInit({Cfg(2, 3, 1)}, {<<"m1">>}, 1 .. MaxSeed, Logging(DeltaMoves))

SpecDelta == DeltaInit /\ [][Next]_vars

\* the same agent with its requests counted
RequestsInit ==
    BattleInit({Cfg(1, 2, 1)}, {<<"m1">>}, 1 .. MaxSeed,
               Harness(-1, TRUE, CountedBatch))

SpecRequests == RequestsInit /\ [][Next]_vars

\* the answers beyond MAX_MOVES that a run of single moves may hold
SpareAnswers == 1

\* one agent on the 1x2 board with 1 mine and the seed 1, its requests
\* counted, each answered with a call of a single move (or with no call, or
\* with a failure), MAX_MOVES + SpareAnswers answers in all
SingleInit ==
    BattleInit({Cfg(1, 2, 1)}, {<<"m1">>}, {1},
               [Harness(-1, TRUE, 1) EXCEPT !.budget = MAX_MOVES + SpareAnswers])

SpecSingle == SingleInit /\ [][Next]_vars

\* generateMinePositions called on its own: every board of up to MaxSide rows
\* and columns, every mine count up to the number of cells, every seed and
\* every excluded cell (or none)
GenInputs ==
    {[cfg |-> Cfg(r, c, m), seed |-> sd, excludedCell |-> e] :
        r \in 1 .. MaxSide, c \in 1 .. MaxSide, m \in 0 .. MaxSide * MaxSide,
        sd \in 0 .. MaxSeed, e \in ((0 .. MaxSide - 1) \X (0 .. MaxSide - 1)) \cup {NoCell}}

GenInit ==
    /\ genIn \in {i \in GenInputs :
                    /\ i.cfg.mineCount <= i.cfg.rows * i.cfg.cols
                    /\ i.excludedCell = NoCell \/ i.excludedCell \in Cells(i.cfg)}
    /\ genOut = <<>>
    /\ config = genIn.cfg
    /\ models = <<>>
    /\ boardSeed = genIn.seed
    /\ status = "pending"
    /\ modelStates = <<>>
    /\ rankings = <<>>
    /\ pc = <<>>
    /\ sim = <<>>
    /\ requests = <<>>
    /\ last = <<>>
    /\ harness = Harness(0, FALSE, 0)
    /\ answered = 0
    /\ log = <<>>
    /\ subscribers = <<>>
    /\ sent = NoneSent
    /\ written = <<>>
    /\ frameIndices = <<>>
    /\ db = NoDb
    /\ heap = NoHeap

\* one call of generateMinePositions
Generate ==
    /\ genOut = <<>>
    /\ genIn # <<>>
    /\ genOut' = [minePositions |->
                    generateMinePositions(genIn.cfg, genIn.seed, genIn.excludedCell)]
    /\ UNCHANGED <<config, models, boardSeed, status, modelStates, rankings, pc, sim,
                   requests, last, harness, answered, log, genIn, subscribers,
                sent, written, frameIndices, db, heap>>

SpecGen == GenInit /\ [][Generate]_vars

\* a function of the program called on its own with an argument drawn from
\* inputs: no battle exists
CallInit(inputs) ==
    /\ genIn \in inputs
    /\ genOut = <<>>
    /\ config = genIn.cfg
    /\ models = <<>>
    /\ boardSeed = 0
    /\ status = "pending"
    /\ modelStates = <<>>
    /\ rankings = <<>>
    /\ pc = <<>>
    /\ sim = <<>>
    /\ requests = <<>>
    /\ last = <<>>
    /\ harness = Harness(0, FALSE, 0)
    /\ answered = 0
    /\ log = <<>>
    /\ subscribers = <<>>
    /\ sent = NoneSent
    /\ written = <<>>
    /\ frameIndices = <<>>
    /\ db = NoDb
    /\ heap = NoHeap

\* the function was called: only its result is new
Called ==
    UNCHANGED <<config, models, boardSeed, status, modelStates, rankings, pc, sim,
                requests, last, harness, answered, log, genIn, subscribers,
                sent, written, frameIndices, db, heap>>

\* what a wrapper can resolve with on the board cfg: a win, stuck or error
\* with no mine hit or a loss with one, 1 .. RankMoves moves (an error also
\* with none), no or every safe cell revealed, a duration of 0 .. MaxDuration
RankResults(cfg) ==
    {r \in [outcome : {"win", "stuck", "loss", "error"}, moves : 0 .. RankMoves,
            safeRevealed : {0, TotalSafe(cfg)}, durationMs : 0 .. MaxDuration,
            minesHit : {0, 1}] :
        /\ r.minesHit = (IF r.outcome = "loss" THEN 1 ELSE 0)
        /\ r.moves = 0 => r.outcome = "error"}

\* the results of three agents on the 1x3 board with 1 mine
RankInit ==
    CallInit({[cfg |-> Cfg(1, 3, 1), agents |-> <<"m1", "m2", "m3">>,
               results |-> <<r1, r2, r3>>] :
                 r1 \in RankResults(Cfg(1, 3, 1)), r2 \in RankResults(Cfg(1, 3, 1)),
                 r3 \in RankResults(Cfg(1, 3, 1))})

\* the GameResults of genIn before the sort
RankInput ==
    [k \in DOMAIN genIn.results |->
        fullResult(genIn.agents[k], genIn.results[k], genIn.results[k], genIn.cfg)]

\* the rankings runBattle computes from the settled results (641-682)
Rank ==
    /\ genOut = <<>>
    /\ genOut' = [rankings |-> SortResults(RankInput, Len(RankInput))]
    /\ Called

SpecRank == RankInit /\ [][Rank]_vars

\* the boards calculateScore is called on: 9x9 with 10 mines, 5x10 with 10
\* mines (40 safe cells) and 1x1 with 1 mine (no safe cell)
ScoreConfigs == {Cfg(9, 9, 10), Cfg(5, 10, 10), Cfg(1, 1, 1)}

\* the ScoreParams of a call: any outcome, 0 .. totalSafe safe cells
\* revealed, 1 .. ScoreMoves moves, minesHit 0 or 1
ScoreInit ==
    CallInit({p \in [cfg : ScoreConfigs,
                     outcome : {"win", "stuck", "loss", "error"},
                     safeRevealed : 0 .. 71, moves : 1 .. ScoreMoves,
                     minesHit : {0, 1}] :
                 p.safeRevealed <= TotalSafe(p.cfg)})

\* calculateScore is called on genIn and returns
Score ==
    /\ genOut = <<>>
    /\ genOut' = [score |-> calculateScore(genIn.outcome, genIn.safeRevealed,
                                           genIn.moves, genIn.minesHit,
                                           genIn.cfg)]
    /\ Called

SpecScore == ScoreInit /\ [][Score]_vars

\* ------------------------------------------------------------------------
\* Subscribers (BattleStore.subscribe, the fan-out of BattleStore.emit).
\* battle.subscribers is a Set: the listeners in insertion order.
\* ------------------------------------------------------------------------
Listeners == {"l1", "l2", "l3"}

\* what a listener does when it is called: nothing, subscribe a listener or
\* call the unsubscribe function of a listener
Callbacks ==
    {[op |-> "none", listener |-> "l1"]}
        \cup [op : {"subscribe", "unsubscribe"}, listener : Listeners]

\* the position of listener l in the list subs, 0 if it is not in it
Position(subs, l) ==
    IF \E k \in DOMAIN subs : subs[k] = l
    THEN CHOOSE k \in DOMAIN subs : subs[k] = l
    ELSE 0

\* battle.subscribers.add(callback)
subscribe(subs, l) == IF Position(subs, l) > 0 THEN subs ELSE Append(subs, l)

\* an unsubscribe that clears the set
unsubscribeAll(subs, l) == <<>>

\* battle.subscribers.delete(callback)
unsubscribe(subs, l) == SelectSeq(subs, LAMBDA x : x # l)

\* the subscribers after the callback cb has run
Ran(cb, subs) ==
    IF cb.op = "subscribe" THEN subscribe(subs, cb.listener)
    ELSE IF cb.op = "unsubscribe" THEN unsubscribe(subs, cb.listener)
    ELSE subs

\* the number of entries among the first visited of subs that the callback cb
\* leaves in the set
StillVisited(cb, subs, visited) ==
    IF /\ cb.op = "unsubscribe"
       /\ Position(subs, cb.listener) > 0
       /\ Position(subs, cb.listener) <= visited
    THEN visited - 1
    ELSE visited

RECURSIVE forEach(_, _, _, _, _)
\* battle.subscribers.forEach((callback) => callback(event)) from the entry
\* after the first visited ones: Set.prototype.forEach walks the live set, so
\* that an entry deleted before its turn is not called and an entry added
\* during the walk is called.  calls are the calls made so far, each with the
\* battle status the listener finds.
forEach(subs, visited, callbacks, seen, calls) ==
    IF visited >= Len(subs) THEN [subscribers |-> subs, calls |-> calls]
    ELSE forEach(Ran(callbacks[subs[visited + 1]], subs),
                 StillVisited(callbacks[subs[visited + 1]], subs, visited + 1),
                 callbacks, seen,
                 Append(calls, [listener |-> subs[visited + 1], status |-> seen]))

\* the lists of at most n distinct listeners
SubscriberLists(n) ==
    {subs \in SeqsUpTo(Listeners, n) :
        \A j, k \in DOMAIN subs : subs[j] = subs[k] => j = k}

\* a pending battle with up to MaxListeners subscribers, each with a callback,
\* and an init event to emit
FanOutInit ==
    CallInit([cfg : {Cfg(1, 3, 1)}, subscribers : SubscriberLists(MaxListeners),
              callbacks : [Listeners -> Callbacks]])

\* emit(battleId, init event): the mutation, then the fan-out
EmitFanOut ==
    /\ genOut = <<>>
    /\ status' = emit(Battle, initEvent).status
    /\ genOut' = forEach(genIn.subscribers, 0, genIn.callbacks, status', <<>>)
    /\ UNCHANGED <<config, models, boardSeed, modelStates, rankings, pc, sim,
                   requests, last, harness, answered, log, genIn, subscribers,
                sent, written, frameIndices, db, heap>>

SpecFanOut == FanOutInit /\ [][EmitFanOut]_vars

\* ------------------------------------------------------------------------
\* Event stream route (GET /api/battle/[battleId]/stream)
\* ------------------------------------------------------------------------
\* a catch-up that sends the latest board of agent a and never its completion
AgentCatchupBoardOnly(a, ms) ==
    IF ms.boardState # NoBoard
    THEN <<MoveMessage(a, "reveal", <<0, 0>>, ms.prevBoardState, ms.boardState)>>
    ELSE <<>>

\* what sendCatchupEvents sends for agent a with the ModelState ms: a
\* synthetic move with its latest board, then its completion
AgentCatchup(a, ms) ==
    (IF ms.boardState # NoBoard
     THEN <<MoveMessage(a, "reveal", <<0, 0>>, ms.prevBoardState, ms.boardState)>>
     ELSE <<>>)
    \o (IF ms.status = "complete" /\ ms.outcome # "none"
        THEN <<completeEvent(a, ms)>>
        ELSE <<>>)

RECURSIVE AgentsCatchup(_, _, _)
\* the for loop of sendCatchupEvents over the first n agents of the list
AgentsCatchup(battle, agents, n) ==
    IF n = 0 THEN <<>>
    ELSE AgentsCatchup(battle, agents, n - 1)
             \o AgentCatchup(agents[n], battle.modelStates[agents[n]])

\* sendCatchupEvents(sse, battle): the messages sent
sendCatchupEvents(battle, agents) ==
    <<initEvent>>
    \o AgentsCatchup(battle, agents, Len(agents))
    \o (IF battle.status = "complete" /\ battle.rankings # <<>>
        THEN <<[type |-> "done", rankings |-> battle.rankings]>>
        ELSE <<>>)

\* a client opens the stream: its listener is subscribed, then the catch-up
\* is sent to it unless the battle is pending
Get(c) ==
    /\ c \notin Range(subscribers)
    /\ subscribers' = subscribe(subscribers, c)
    /\ sent' = [NoneSent EXCEPT
                  ![c] = IF status # "pending"
                         THEN sendCatchupEvents(Battle, models)
                         ELSE <<>>]
    /\ written' = <<>>
    /\ UNCHANGED <<frameIndices, db, heap>>
    /\ UNCHANGED <<config, models, boardSeed, status, modelStates, rankings, pc, sim,
                   requests, last, harness, answered, log, genIn, genOut>>

\* the client disconnects: the abort listener unsubscribes
Abort(c) ==
    /\ c \in Range(subscribers)
    /\ subscribers' = unsubscribe(subscribers, c)
    /\ sent' = NoneSent
    /\ written' = <<>>
    /\ UNCHANGED <<frameIndices, db, heap>>
    /\ UNCHANGED <<config, models, boardSeed, status, modelStates, rankings, pc, sim,
                   requests, last, harness, answered, log, genIn, genOut>>

NextStream ==
    \/ Next
    \/ \E c \in Clients : Get(c)
    \/ \E c \in Clients : Abort(c)

\* two agents on the 1x3 board with 1 mine and the seed 1, answers of one
\* move each and of StreamMoves moves in all, every emitted event logged
StreamInit ==
    BattleInit({Cfg(1, 3, 1)}, {<<"m1", "m2">>}, {1},
               [Logging(StreamMoves) EXCEPT !.maxBatch = 1])

SpecStream == StreamInit /\ [][NextStream]_vars

\* ------------------------------------------------------------------------
\* Store lookups (BattleStore.getBattle, BattleStore.subscribe by battle id)
\* ------------------------------------------------------------------------
\* the id createBattle gave the battle, and an id no battle has
BattleId == "b1"

BattleIds == {"b1", "b2"}

\* every id is taken for the id of the battle
KnownAlways(id) == TRUE

\* this.battles.get(battleId) finds a battle
Known(id) == id = BattleId

\* subscribe(battleId, callback) is called for the listener of client c: it
\* throws if no battle has the id, else it adds the listener and returns the
\* unsubscribe function
SubscribeCall(id, c) ==
    /\ genIn' = [call |-> "subscribe", battleId |-> id, listener |-> c]
    /\ IF Known(id)
       THEN /\ subscribers' = subscribe(subscribers, c)
            /\ genOut' = [thrown |-> "none", found |-> TRUE]
       ELSE /\ subscribers' = subscribers
            /\ genOut' = [thrown |-> "Battle not found", found |-> FALSE]
    /\ sent' = NoneSent
    /\ written' = <<>>
    /\ UNCHANGED <<frameIndices, db, heap>>
    /\ UNCHANGED <<config, models, boardSeed, status, modelStates, rankings, pc, sim,
                   requests, last, harness, answered, log>>

\* getBattle(battleId) is called: the battle or undefined
GetBattleCall(id) ==
    /\ genIn' = [call |-> "getBattle", battleId |-> id, listener |-> "none"]
    /\ genOut' = [thrown |-> "none", found |-> Known(id)]
    /\ sent' = NoneSent
    /\ written' = <<>>
    /\ UNCHANGED <<frameIndices, db, heap>>
    /\ UNCHANGED <<config, models, boardSeed, status, modelStates, rankings, pc, sim,
                   requests, last, harness, answered, log, subscribers>>

NextStore ==
    \/ Next
    \/ \E id \in BattleIds, c \in Clients : SubscribeCall(id, c)
    \/ \E id \in BattleIds : GetBattleCall(id)

\* one agent on the 1x3 board with 1 mine and the seed 1, answers of one move
\* each and of StreamMoves moves in all
StoreInit ==
    BattleInit({Cfg(1, 3, 1)}, {<<"m1">>}, {1},
               [Logging(StreamMoves) EXCEPT !.logging = FALSE, !.maxBatch = 1])

SpecStore == StoreInit /\ [][NextStore]_vars

\* ------------------------------------------------------------------------
\* Persistence (the db functions behind createBattle and emit, run against
\* the key-value client: every await is a request the store serves on its
\* own, so the calls in flight advance in any order)
\* ------------------------------------------------------------------------
\* the requests to the store that may fail in a run
MaxFaults == 1

\* the moves the answers of a run with the db calls followed hold in all
PersistMoves == 1

\* the rejection is left on the promise
catchNone(outcome) == outcome

\* promise.catch((err) => console.error(...)): the rejection is logged and
\* the promise of the chain is fulfilled
catch(outcome) == IF outcome = "rejected" THEN "logged" ELSE outcome

Without(calls, i) ==
    [k \in 1 .. Len(calls) - 1 |-> IF k < i THEN calls[k] ELSE calls[k + 1]]

\* results[modelId] = result
Put(results, result) ==
    IF \E k \in DOMAIN results : results[k].modelId = result.modelId
    THEN [k \in DOMAIN results |->
            IF results[k].modelId = result.modelId THEN result ELSE results[k]]
    ELSE Append(results, result)

\* the promise of call i settles with the outcome, under the handler that
\* createBattle and emit chain to it
Resolves(d, i, outcome) ==
    [d EXCEPT !.calls = Without(@, i),
              !.errors = @ + (IF catch(outcome) = "logged" THEN 1 ELSE 0),
              !.unhandled = @ + (IF catch(outcome) = "rejected" THEN 1 ELSE 0)]

\* call c, the i-th in flight, runs to its next await (or to its end)
Stepped(d, c, i) ==
    IF c.call = "insertBattle"
    THEN Resolves([d EXCEPT !.store.battle = <<c.arg>>], i, "fulfilled")
    ELSE IF c.call = "insertFrame"
    THEN IF c.at = "get"
         THEN [d EXCEPT !.calls[i].at = "set",
                        !.calls[i].read = Append(d.store.frames[c.modelId], c.arg)]
         ELSE Resolves([d EXCEPT !.store.frames[c.modelId] = c.read], i, "fulfilled")
    ELSE IF c.call = "insertResult"
    THEN IF c.at = "get"
         THEN [d EXCEPT !.calls[i].at = "set",
                        !.calls[i].read = Put(d.store.results, c.arg)]
         ELSE Resolves([d EXCEPT !.store.results = c.read], i, "fulfilled")
    ELSE IF c.at = "get"
    THEN IF d.store.battle = <<>>
         THEN Resolves(d, i, "rejected")
         ELSE [d EXCEPT !.calls[i].at = "set",
                        !.calls[i].read =
                            <<[d.store.battle[1] EXCEPT !.status = c.arg.status,
                                                        !.rankings = c.arg.rankings,
                                                        !.completed = TRUE]>>]
    ELSE IF c.at = "set"
    THEN [d EXCEPT !.store.battle = c.read, !.calls[i].at = "zadd"]
    ELSE Resolves([d EXCEPT !.store.completed =
                               IF BattleId \in Range(@) THEN @ ELSE Append(@, BattleId)],
                 i, "fulfilled")

\* the store serves the request the i-th call in flight waits for
KvStep(i) ==
    /\ i \in DOMAIN db.calls
    /\ db' = Stepped(db, db.calls[i], i)
    /\ sent' = NoneSent
    /\ written' = <<>>
    /\ UNCHANGED <<config, models, boardSeed, status, modelStates, rankings, pc, sim,
                   requests, last, harness, answered, log, genIn, genOut, subscribers,
                   frameIndices, heap>>

\* the request the i-th call in flight waits for fails: the call rejects
KvFail(i) ==
    /\ i \in DOMAIN db.calls
    /\ db.errors + db.unhandled < harness.faults
    /\ db' = Resolves(db, i, "rejected")
    /\ sent' = NoneSent
    /\ written' = <<>>
    /\ UNCHANGED <<config, models, boardSeed, status, modelStates, rankings, pc, sim,
                   requests, last, harness, answered, log, genIn, genOut, subscribers,
                   frameIndices, heap>>

NextPersist ==
    \/ Next
    \/ \E i \in DOMAIN db.calls : KvStep(i)
    \/ \E i \in DOMAIN db.calls : KvFail(i)

\* one agent on the 1x3 board with 1 mine and the seed 1, answers of
\* PersistMoves moves in all, every emitted event logged, the db calls
\* followed and up to MaxFaults of their requests failing
PersistInit ==
    BattleInit({Cfg(1, 3, 1)}, {<<"m1">>}, {1},
               [Logging(PersistMoves) EXCEPT !.persist = TRUE, !.faults = MaxFaults])

SpecPersist == PersistInit /\ [][NextPersist]_vars

\* ------------------------------------------------------------------------
\* Two runs of the turn loop on the same responses
\* ------------------------------------------------------------------------
\* the responses of a script
ScriptLen == 2

\* the scripts: ScriptLen responses, each a call of a single move, no call or
\* a failure
Scripts(cfg) == [1 .. ScriptLen -> Responses(cfg, 1)]

\* two agents on the 1x3 board with 1 mine and the seed 1, both answered from
\* the same script (the n-th request of either with its n-th response)
TwinInit ==
    \E script \in Scripts(Cfg(1, 3, 1)) :
        BattleInit({Cfg(1, 3, 1)}, {<<"m1", "m2">>}, {1},
                   [Harness(-1, TRUE, 1) EXCEPT !.script = script])

SpecTwin == TwinInit /\ [][Next]_vars

\* ------------------------------------------------------------------------
\* Error events (BattleStore.emit called with an event of type error)
\* ------------------------------------------------------------------------
ErrorCodes == {"credit_exhausted", "unknown"}

errorEvent(code) == [type |-> "error", error |-> "message", code |-> code]

\* battleStore.emit(battleId, { type: 'error', error, code }), counted as one
\* of the answers of the environment
EmitError(code) ==
    /\ Budgeted(1)
    /\ status' = emit(Battle, errorEvent(code)).status
    /\ modelStates' = emit(Battle, errorEvent(code)).modelStates
    /\ rankings' = emit(Battle, errorEvent(code)).rankings
    /\ Emits(<<errorEvent(code)>>)
    /\ UNCHANGED <<config, models, boardSeed, pc, sim, requests, last, harness, genIn,
                   genOut, subscribers>>

NextErrors ==
    \/ NextStream
    \/ \E code \in ErrorCodes : EmitError(code)

\* one agent on the 1x3 board with 1 mine and the seed 1, answers of one move
\* each, StreamMoves answers and error events in all, every emitted event
\* logged
ErrorsInit ==
    BattleInit({Cfg(1, 3, 1)}, {<<"m1">>}, {1},
               [Logging(StreamMoves) EXCEPT !.maxBatch = 1])

SpecErrors == ErrorsInit /\ [][NextErrors]_vars

\* ------------------------------------------------------------------------
\* Board objects (execute of makeMove and of makeMoves, move by move, on a
\* heap: an object is known by its index, null by 0)
\* ------------------------------------------------------------------------
\* the applied moves followed on the heap
HeapMoves == 3

\* the same object is handed on
CopyNone(objects, ref) == [objects |-> objects, ref |-> ref]

\* JSON.parse(JSON.stringify(x)): a new object with the value of x
Copy(objects, ref) ==
    [objects |-> Append(objects, objects[ref]), ref |-> Len(objects) + 1]

\* if (!board) board = createBoard(...)
Ensured(h, mv, cfg, seed) ==
    IF h.board = 0
    THEN [h EXCEPT !.objects = Append(@, createBoard(cfg,
                                    generateMinePositions(cfg, seed, mv.cell))),
                   !.board = Len(h.objects) + 1]
    ELSE h

\* revealCell / flagCell change the object board in place, moves++
Mutated(h, r) ==
    [h EXCEPT !.objects[h.board] = r.board,
              !.over = r.hitMine,
              !.moves = @ + 1]

\* the copy of prevBoard, or null
PrevCopied(objects, ref) ==
    IF ref = 0 THEN [objects |-> objects, ref |-> 0] ELSE Copy(objects, ref)

\* onMove(boardStateCopy, prevBoardCopy, ...): emit keeps the event's
\* boardState as the ModelState's, the former one as prevBoardState, and the
\* event goes to the subscribers and to insertFrame; prevBoard = boardStateCopy
Handed(h, copy, prevCopy) ==
    [h EXCEPT !.objects = prevCopy.objects,
              !.prevBoardState = h.boardState,
              !.boardState = copy.ref,
              !.events = Append(@, copy.ref),
              !.prevBoard = copy.ref]

Snapshotted(h, copy) == Handed(h, copy, PrevCopied(copy.objects, h.prevBoard))

\* execute for the move mv on the heap h whose board exists
Executed(h, mv) ==
    IF Unavailable(h.objects[h.board], mv) THEN h
    ELSE Snapshotted(Mutated(h, Played(h.objects[h.board], mv)),
                     Copy(Mutated(h, Played(h.objects[h.board], mv)).objects, h.board))

\* one call of makeMove's execute, or one iteration of the loop of makeMoves
Execute(mv) ==
    /\ heap # NoHeap
    /\ ~heap.over
    /\ heap.moves < HeapMoves
    /\ heap' = Executed(Ensured(heap, mv, config, boardSeed), mv)
    /\ UNCHANGED <<config, models, boardSeed, status, modelStates, rankings, pc, sim,
                   requests, last, harness, answered, log, genIn, genOut, subscribers,
                   sent, written, frameIndices, db>>

NextHeap == \E mv \in MoveSet(config) : Execute(mv)

\* the turn loop of one agent before its first move, on the 1x3 board with 1
\* mine or the 2x2 board with 1 mine, seed 1
HeapInit ==
    /\ config \in {Cfg(1, 3, 1), Cfg(2, 2, 1)}
    /\ boardSeed = 1
    /\ heap = [objects |-> <<>>, board |-> 0, prevBoard |-> 0, boardState |-> 0,
               prevBoardState |-> 0, events |-> <<>>, over |-> FALSE, moves |-> 0]
    /\ models = <<>>
    /\ status = "pending"
    /\ modelStates = <<>>
    /\ rankings = <<>>
    /\ pc = <<>>
    /\ sim = <<>>
    /\ requests = <<>>
    /\ last = <<>>
    /\ harness = Harness(0, FALSE, 0)
    /\ answered = 0
    /\ log = <<>>
    /\ genIn = <<>>
    /\ genOut = <<>>
    /\ subscribers = <<>>
    /\ sent = NoneSent
    /\ written = <<>>
    /\ frameIndices = <<>>
    /\ db = NoDb

SpecHeap == HeapInit /\ [][NextHeap]_vars

\* ------------------------------------------------------------------------
\* Board operations (lib/minesweeper.ts) called on their own: a board made
\* by createBoard from a list of mine positions, then any sequence of
\* revealCell and flagCell calls.  genOut holds the board after the last
\* call, the call and what it returned; before the first call the board is
\* the fresh one.
\* ------------------------------------------------------------------------
BoardConfigs == {Cfg(1, 3, 1), Cfg(2, 2, 1), Cfg(2, 3, 1), Cfg(2, 3, 2)}

\* the lists of cfg.mineCount different cells, in row-major order
MineLists(cfg) ==
    {SelectSeq(RowMajor(cfg), LAMBDA q : q \in S) :
        S \in {T \in SUBSET Cells(cfg) : Cardinality(T) = cfg.mineCount}}

BoardInit ==
    CallInit(UNION {[cfg : {cfg}, minePositions : MineLists(cfg)] :
                       cfg \in BoardConfigs})

\* the board the next call is made on
Board ==
    IF genOut = <<>> THEN createBoard(genIn.cfg, genIn.minePositions)
    ELSE genOut.board

\* revealCell was called on cell p and returned r
RevealReturned(p, r) ==
    genOut' = [board |-> r.board, op |-> "revealCell", cell |-> p,
               revealedCount |-> r.revealedCount, hitMine |-> r.hitMine]

RevealCall(p) ==
    /\ RevealReturned(p, revealCell(Board, p))
    /\ Called

\* flagCell was called on cell p (it returns nothing)
FlagCall(p) ==
    /\ genOut' = [board |-> flagCell(Board, p), op |-> "flagCell", cell |-> p,
                  revealedCount |-> 0, hitMine |-> FALSE]
    /\ Called

NextBoard ==
    \/ \E p \in Cells(config) : RevealCall(p)
    \/ \E p \in Cells(config) : FlagCall(p)

SpecBoard == BoardInit /\ [][NextBoard]_vars

\* the same calls with nothing kept of a call but the board it left: the
\* states are the boards revealCell and flagCell reach
RevealOn(p) ==
    /\ genOut' = [board |-> revealCell(Board, p).board]
    /\ Called

FlagOn(p) ==
    /\ genOut' = [board |-> flagCell(Board, p)]
    /\ Called

NextPlay ==
    \/ \E p \in Cells(config) : RevealOn(p)
    \/ \E p \in Cells(config) : FlagOn(p)

SpecPlay == BoardInit /\ [][NextPlay]_vars

\* ------------------------------------------------------------------------
\* Properties
\* ------------------------------------------------------------------------
\* agent a's runModelSimulation has returned
Settled(a) == pc[a] \in {"returned", "complete"}

MineCells(b) == {p \in DOMAIN b : b[p].isMine}

RevealedMines(b) == {p \in DOMAIN b : b[p].isMine /\ b[p].isRevealed}

\* C1: once two agents of a battle have both made their first move, their
\* hidden boards hold the mines at the same cells.
C1_SameBoard ==
    \A a \in Agents : \A b \in Agents :
        (sim[a].board # NoBoard /\ sim[b].board # NoBoard)
            => MineCells(sim[a].board) = MineCells(sim[b].board)

\* C2: for every configuration with mineCount < rows * cols,
\* generateMinePositions returns exactly mineCount positions, pairwise
\* distinct, all on the board, none in the 3x3 neighbourhood of the excluded
\* cell.
C2_GeneratorContract ==
    (genOut # <<>> /\ genIn.cfg.mineCount < genIn.cfg.rows * genIn.cfg.cols) =>
        LET mines == genOut.minePositions
        IN  /\ Len(mines) = genIn.cfg.mineCount
            /\ \A i \in DOMAIN mines : \A j \in DOMAIN mines :
                    i # j => mines[i] # mines[j]
            /\ \A i \in DOMAIN mines : mines[i] \in Cells(genIn.cfg)
            /\ \A i \in DOMAIN mines : ~InExcluded(mines[i], genIn.excludedCell)

\* C3: when every request returns (with a makeMove call, a makeMoves call, no
\* tool call or a failure), the battle eventually emits done.
C3_EventuallyDone == <>(status = "complete")

\* C4: the number of requests sent to one agent never exceeds
\* MAX_MOVES * MAX_RETRIES = 180.
C4_RequestBound ==
    \A a \in Agents : requests[a] <= MAX_MOVES * MAX_RETRIES

\* C5: an agent's move count never exceeds MAX_MOVES = 60, in the turn loop,
\* in its complete event and in the store's ModelState, batches included.
C5_MovesBound ==
    \A a \in Agents :
        /\ sim[a].moves <= MAX_MOVES
        /\ modelStates[a].moves <= MAX_MOVES

\* the steps of C6: a failed attempt is counted and applies nothing; before
\* the third failure the loop sends a new request; at the third it returns
\* with error and sends none; the turn after a successful move starts with a
\* retry count of 0; a returned agent is sent nothing
C6_Step ==
    \A a \in Agents :
        /\ (pc[a] = "await" /\ pc'[a] = "loop" /\ last'[a].threw)
              => /\ sim'[a].retries = sim[a].retries + 1
                 /\ sim'[a].moves = sim[a].moves
                 /\ sim'[a].outcome =
                       (IF sim'[a].retries = MAX_RETRIES THEN "error" ELSE sim[a].outcome)
        /\ (pc[a] = "loop" /\ pc'[a] # "loop" /\ last[a].threw
                /\ sim[a].retries < MAX_RETRIES)
              => /\ pc'[a] = "await"
                 /\ requests'[a] = requests[a] + 1
                 /\ sim'[a].retries = sim[a].retries
        /\ (pc[a] = "loop" /\ pc'[a] # "loop" /\ sim[a].retries >= MAX_RETRIES)
              => /\ pc'[a] = "returned"
                 /\ sim'[a].outcome = "error"
                 /\ requests'[a] = requests[a]
        /\ (pc[a] = "loop" /\ pc'[a] = "await" /\ sim[a].moveSuccessful)
              => sim'[a].retries = 0
        /\ Settled(a) => requests'[a] = requests[a]

\* the states of C6: three failures in a turn mean error; an agent that
\* returned without ever having a tool executed has error, 0 moves and
\* exactly MAX_RETRIES requests
C6_State ==
    \A a \in Agents :
        /\ sim[a].retries <= MAX_RETRIES
        /\ (sim[a].retries = MAX_RETRIES) => sim[a].outcome = "error"
        /\ (Settled(a) /\ sim[a].board = NoBoard)
              => /\ sim[a].outcome = "error"
                 /\ sim[a].moves = 0
                 /\ requests[a] = MAX_RETRIES

C7_Step ==
    \A a \in Agents :
        (/\ pc[a] = "await"
         /\ pc'[a] = "loop"
         /\ last'[a].tool \in {"makeMove", "makeMoves"}
         /\ last'[a].executed = 0)
            => /\ sim'[a].board = sim[a].board
               /\ sim'[a].moves = sim[a].moves
               /\ sim'[a].retries = sim[a].retries + 1

\* C7: a move on a revealed cell, or a reveal of a flagged cell, applies
\* nothing and counts as one failed attempt, as a makeMove call and as the
\* first move of a makeMoves batch alike.
C7_UnavailableCounts == [][C7_Step]_vars

\* an outcome other than playing is kept by every step
C8_Step ==
    \A a \in Agents :
        sim[a].outcome # "playing" => sim'[a].outcome = sim[a].outcome

\* an agent that hit a mine has returned with loss
C8_State ==
    \A a \in Agents :
        (Settled(a) /\ sim[a].minesHit = 1) => sim[a].outcome = "loss"

\* C8: an agent's outcome, once it is not playing any more, never changes;
\* an agent with minesHit = 1 finishes with the outcome loss.
C8_TerminalOutcome == [][C8_Step]_vars /\ []C8_State

\* after the mine no step changes the agent's board, its move count, the
\* requests sent to it or the board the store holds for it
C9_Step ==
    \A a \in Agents :
        sim[a].minesHit = 1
            => /\ sim'[a].board = sim[a].board
               /\ sim'[a].moves = sim[a].moves
               /\ requests'[a] = requests[a]
               /\ modelStates'[a].boardState = modelStates[a].boardState

\* the move that exposed the mine is the last one applied: the store's latest
\* snapshot is the agent's board with its one revealed mine, the snapshot
\* before it shows no revealed mine, and a batch reports that it stopped early
C9_State ==
    \A a \in Agents :
        sim[a].minesHit = 1
            => /\ Cardinality(RevealedMines(sim[a].board)) = 1
               /\ modelStates[a].boardState = sim[a].board
               /\ RevealedMines(modelStates[a].prevBoardState) = {}
               /\ (pc[a] = "loop" /\ last[a].tool = "makeMoves") => last[a].stoppedEarly

\* C9: once a reveal has exposed a mine no further move of the agent is
\* applied, in the rest of the batch or in a later turn, and no further
\* request is sent.
C9_StopsAfterMine == [][C9_Step]_vars /\ []C9_State

\* an agent that hit a mine inside the batch of its first response and returned
C9_Witness ==
    \E a \in Agents :
        /\ sim[a].minesHit = 1
        /\ Settled(a)
        /\ sim[a].moves >= 2
        /\ requests[a] = 1

\* once a safe reveal has brought safeRevealed to totalSafe no request is
\* sent, and the loop returns with win
C10_Step ==
    \A a \in Agents :
        sim[a].reachedTotal
            => /\ requests'[a] = requests[a]
               /\ (pc[a] = "loop" /\ pc'[a] # "loop")
                     => (pc'[a] = "returned" /\ sim'[a].outcome = "win")

\* an agent whose safeRevealed reached totalSafe has returned with win; on the
\* 1x1 board without mines one move that revealed (0,0) gave win and
\* safeRevealed = 1
C10_State ==
    \A a \in Agents :
        /\ (Settled(a) /\ sim[a].reachedTotal) => sim[a].outcome = "win"
        /\ (/\ config = Cfg(1, 1, 0)
            /\ Settled(a)
            /\ sim[a].moves = 1
            /\ sim[a].board[<<0, 0>>].isRevealed)
              => (sim[a].outcome = "win" /\ sim[a].safeRevealed = 1)

\* C10: when an applied safe reveal brings safeRevealed to totalSafe the
\* agent's outcome becomes win and no further request is sent; on a 1x1 board
\* without mines a first move reveal(0,0) gives win, safeRevealed = 1 and
\* moves = 1.
C10_WinOnLastSafe == [][C10_Step]_vars /\ []C10_State

\* C11: within a makeMoves batch, after the move that reveals the last safe
\* cell (safeRevealed = totalSafe) no later move of the same batch is applied
\* to the board or counted in moves.
C11_BatchStopsAtWin ==
    [][\A a \in Agents :
          (/\ pc[a] = "await"
           /\ pc'[a] = "loop"
           /\ last'[a].tool = "makeMoves"
           /\ ~sim[a].reachedTotal
           /\ sim'[a].reachedTotal)
              => sim'[a].afterTotal = 0]_vars

RECURSIVE PlayAll(_, _, _, _)
\* the board after the moves of moveList were played on b one after the other
PlayAll(b, moveList, cfg, seed) ==
    IF moveList = <<>> THEN b
    ELSE PlayAll(Played(EnsureBoard(b, Head(moveList).cell, cfg, seed),
                        Head(moveList)).board,
                 Tail(moveList), cfg, seed)

\* the step that answers a request of agent a with a makeMoves batch
BatchStep(a) ==
    /\ pc[a] = "await"
    /\ pc'[a] = "loop"
    /\ last'[a].tool = "makeMoves"

\* what a batch that executed n moves has done
C12_Executed(a, n) ==
    /\ n <= last'[a].total
    /\ last'[a].total = Len(last'[a].requested)
    /\ last'[a].applied = SubSeq(last'[a].requested, 1, n)
    /\ last'[a].callbacks = n
    /\ sim'[a].moves = sim[a].moves + n
    /\ modelStates'[a].moves = modelStates[a].moves + n
    /\ sim'[a].board = PlayAll(sim[a].board, last'[a].applied, config, boardSeed)
    /\ modelStates'[a].boardState =
          (IF n = 0 THEN modelStates[a].boardState ELSE sim'[a].board)
    /\ (n < last'[a].total) => last'[a].stoppedEarly

\* C12: the moves a makeMoves batch applies are a prefix of the requested
\* list, applied in the given order; the returned executed count is the
\* number of moves applied and of move callbacks fired, total is the number
\* requested, and stoppedEarly is true whenever executed < total.
C12_BatchPrefix ==
    [][\A a \in Agents : BatchStep(a) => C12_Executed(a, last'[a].executed)]_vars

\* a batch of two moves of which exactly the first was applied
C12_Witness ==
    \E a \in Agents :
        /\ pc[a] = "loop"
        /\ last[a].tool = "makeMoves"
        /\ last[a].total = 2
        /\ last[a].executed = 1
        /\ last[a].stoppedEarly
        /\ sim[a].minesHit = 0

\* the positions of the log that hold an event of the given type
Positions(type) == {k \in DOMAIN log : log[k].type = type}

\* the positions of the log that hold an event of the given type for agent a
PositionsOf(type, a) == {k \in Positions(type) : log[k].modelId = a}

\* runBattle has ended: it threw before its first emit, or it emitted done
RunBattleOver ==
    \/ \A a \in Agents : pc[a] = "aborted"
    \/ status = "complete"

\* C13: for every battle run by runBattle exactly one done event is emitted;
\* it is emitted after the complete event of every agent of the battle, and
\* no event of the battle is emitted after it.
C13_OneDoneLast ==
    /\ Cardinality(Positions("done")) <= 1
    /\ \A k \in Positions("done") :
          /\ k = Len(log)
          /\ \A a \in Agents : \E j \in PositionsOf("complete", a) : j < k
    /\ RunBattleOver => Cardinality(Positions("done")) = 1

\* the events a step has appended to the log
Emitted == SubSeq(log', Len(log) + 1, Len(log'))

\* the step that answers a request of agent a appends one move event per move
\* applied, in the order applied, each with the board after that move
C14_Step ==
    \A a \in Agents :
        (pc[a] = "await" /\ pc'[a] = "loop")
            => /\ Len(log') = Len(log) + Len(last'[a].applied)
               /\ SubSeq(log', 1, Len(log)) = log
               /\ \A i \in DOMAIN last'[a].applied :
                     /\ Emitted[i].type = "move"
                     /\ Emitted[i].modelId = a
                     /\ Emitted[i].action = last'[a].applied[i].action
                     /\ Emitted[i].cell = last'[a].applied[i].cell
                     /\ Emitted[i].boardState =
                           PlayAll(sim[a].board, SubSeq(last'[a].applied, 1, i),
                                   config, boardSeed)

\* init is the first event and the only init; an agent has as many move
\* events as moves applied, the last of them with its current board, at most
\* one complete event, after all its move events, and exactly one once its
\* wrapper has finished
C14_State ==
    /\ Positions("init") = (IF log = <<>> THEN {} ELSE {1})
    /\ \A a \in Agents :
          /\ Cardinality(PositionsOf("move", a)) = sim[a].moves
          /\ \A k \in PositionsOf("move", a) :
                (\A j \in PositionsOf("move", a) : j <= k)
                    => log[k].boardState = sim[a].board
          /\ Cardinality(PositionsOf("complete", a)) =
                (IF pc[a] \in {"complete", "failed"} THEN 1 ELSE 0)
          /\ \A k \in PositionsOf("move", a) :
                \A j \in PositionsOf("complete", a) : k < j

\* C14: the events of one agent are ordered: the battle's init first, then
\* the agent's move events in the order its moves were applied to its board,
\* then exactly one complete event; no move event of the agent follows its
\* complete event, whatever the other agents do in between.
C14_AgentOrder == [][C14_Step]_vars /\ []C14_State

\* m1 moved and won, m2 moved before m1's complete event was emitted
C14_Witness ==
    \E i, j, c \in DOMAIN log :
        /\ i < j /\ j < c
        /\ log[i].type = "move" /\ log[i].modelId = "m1"
        /\ log[j].type = "move" /\ log[j].modelId = "m2"
        /\ log[c].type = "complete" /\ log[c].modelId = "m1"
        /\ log[c].outcome = "win"

\* the step in which agent a's simulation rejects
Rejects(a) == pc[a] = "await" /\ pc'[a] = "failed"

\* the rejection of agent a's simulation emits one complete event with the
\* outcome error and zero statistics and touches no other agent
C15_Step ==
    \A a \in Agents :
        Rejects(a)
            => /\ Emitted = <<completeEvent(a, ErrorResult)>>
               /\ modelStates'[a].status = "complete"
               /\ modelStates'[a].outcome = "error"
               /\ modelStates'[a].moves = 0
               /\ modelStates'[a].safeRevealed = 0
               /\ modelStates'[a].minesHit = 0
               /\ modelStates'[a].durationMs = 0
               /\ \A b \in Agents \ {a} :
                     /\ sim'[b] = sim[b]
                     /\ pc'[b] = pc[b]
                     /\ requests'[b] = requests[b]
                     /\ modelStates'[b] = modelStates[b]

\* the ranking entry of agent a
Ranked(a) == {k \in DOMAIN rankings : rankings[k].modelId = a}

\* once every wrapper has finished done can be emitted; its rankings hold one
\* entry per agent, with error and zeros for an agent whose simulation
\* rejected and with its own result for every other agent
C15_State ==
    /\ (status = "running" /\ \A a \in Agents : pc[a] \in {"complete", "failed"})
          => ENABLED Done
    /\ status = "complete"
          => /\ Len(rankings) = Len(models)
             /\ \A a \in Agents :
                   /\ Cardinality(Ranked(a)) = 1
                   /\ \A k \in Ranked(a) :
                         IF pc[a] = "failed"
                         THEN /\ rankings[k].outcome = "error"
                              /\ rankings[k].moves = 0
                              /\ rankings[k].safeRevealed = 0
                              /\ rankings[k].minesHit = 0
                              /\ rankings[k].durationMs = 0
                              /\ rankings[k].score = 0
                         ELSE /\ rankings[k].outcome = sim[a].outcome
                              /\ rankings[k].moves = sim[a].moves
                              /\ rankings[k].safeRevealed = sim[a].safeRevealed
                              /\ rankings[k].durationMs = sim[a].durationMs

\* C15: when one agent's turn loop raises an uncaught exception, that agent
\* gets a complete event with outcome error and zero moves, safeRevealed,
\* minesHit and durationMs; the other agents' loops, boards and results are
\* unaffected, and done is still emitted with a ranking entry for every agent.
C15_Isolated == [][C15_Step]_vars /\ []C15_State

\* done was emitted for a battle in which m1's simulation rejected and m2 won
C15_Witness ==
    /\ status = "complete"
    /\ pc["m1"] = "failed"
    /\ pc["m2"] = "complete"
    /\ sim["m2"].outcome = "win"
    /\ sim["m2"].moves = 1

\* the position of agent a in the agent list of the ranked battle
ListIndex(a) == CHOOSE k \in DOMAIN genIn.agents : genIn.agents[k] = a

\* the priority of an outcome as the ranking rule states it
Priority(o) ==
    CASE o = "win" -> 1
      [] o = "stuck" -> 2
      [] o = "loss" -> 3
      [] o = "error" -> 4
      [] o = "playing" -> 5

\* x may stand right before y in the rankings
RanksBefore(x, y) ==
    \/ x.score > y.score
    \/ /\ x.score = y.score
       /\ Priority(x.outcome) < Priority(y.outcome)
    \/ /\ x.score = y.score
       /\ Priority(x.outcome) = Priority(y.outcome)
       /\ x.moves < y.moves
    \/ /\ x.score = y.score
       /\ Priority(x.outcome) = Priority(y.outcome)
       /\ x.moves = y.moves
       /\ x.durationMs < y.durationMs
    \/ /\ x.score = y.score
       /\ Priority(x.outcome) = Priority(y.outcome)
       /\ x.moves = y.moves
       /\ x.durationMs = y.durationMs
       /\ ListIndex(x.modelId) < ListIndex(y.modelId)

\* C16: the rankings of done hold every result once, and every consecutive
\* pair is ordered by score descending, then outcome priority win < stuck <
\* loss < error < playing, then moves ascending, then durationMs ascending;
\* results equal on all four keys keep the order of the agent list.  With
\* equal scores a stuck result ranks before a loss result.
C16_RankingOrder ==
    genOut # <<>> =>
        /\ Len(genOut.rankings) = Len(genIn.results)
        /\ \A k \in DOMAIN RankInput :
              \E j \in DOMAIN genOut.rankings : genOut.rankings[j] = RankInput[k]
        /\ \A k \in 1 .. Len(genOut.rankings) - 1 :
              RanksBefore(genOut.rankings[k], genOut.rankings[k + 1])
        /\ \A i, j \in DOMAIN genOut.rankings :
              (/\ genOut.rankings[i].score = genOut.rankings[j].score
               /\ genOut.rankings[i].outcome = "stuck"
               /\ genOut.rankings[j].outcome = "loss") => i < j

\* a loss listed first and a stuck result with the same score: the stuck
\* result is ranked first
C16_Witness ==
    /\ genOut # <<>>
    /\ genIn.results[1].outcome = "loss"
    /\ genIn.results[2].outcome = "stuck"
    /\ RankInput[1].score = RankInput[2].score
    /\ genOut.rankings[1].score = RankInput[1].score
    /\ genOut.rankings[1].outcome = "stuck"

\* the halves subtracted from 100 * safeRatio: moves - 1 for a win,
\* 100 * minesHit otherwise
Halves(o, mv, hit) == IF o = "win" THEN mv - 1 ELSE 100 * hit

\* max(0, round(100 * safe / totalSafe - halves / 2)) in exact arithmetic,
\* halves rounded up, the ratio 0 when totalSafe = 0
ExactScore(safe, halves, totalSafe) ==
    IF totalSafe > 0
    THEN Max(0, RoundDiv((200 * safe) - (halves * totalSafe), 2 * totalSafe))
    ELSE Max(0, RoundDiv(-halves, 2))

\* C17: the score calculateScore returns is
\* max(0, round(100 * safeRevealed / totalSafe - 0.5 * (moves - 1))) for a
\* win and max(0, round(100 * safeRevealed / totalSafe - 50 * minesHit))
\* otherwise, halves rounded up and the ratio 0 when totalSafe = 0
C17_ScoreFormula ==
    genOut # <<>> =>
        genOut.score = ExactScore(genIn.safeRevealed,
                                  Halves(genIn.outcome, genIn.moves, genIn.minesHit),
                                  TotalSafe(genIn.cfg))

\* the number of calls of listener l among calls
CallsOf(calls, l) == Cardinality({k \in DOMAIN calls : calls[k].listener = l})

\* C18: emit calls every listener that is subscribed when emit is called
\* exactly once, after the mutation of the battle, whatever the listeners
\* subscribe or unsubscribe during the fan-out
C18_ExactlyOnce ==
    genOut # <<>> =>
        /\ \A k \in DOMAIN genIn.subscribers :
              CallsOf(genOut.calls, genIn.subscribers[k]) = 1
        /\ \A k \in DOMAIN genOut.calls : genOut.calls[k].status = "running"

\* a BattleState as createBattle makes it for the agents of the battle
FreshBattle ==
    [status |-> "pending", modelStates |-> [a \in Agents |-> InitialModelState],
     rankings |-> <<>>]

RECURSIVE Replay(_, _)
\* the first n of events emitted one by one on a fresh BattleState
Replay(events, n) ==
    IF n = 0 THEN FreshBattle ELSE emit(Replay(events, n - 1), events[n])

\* the live battle when the step has emitted the events up to the n-th of
\* the log
LiveAt(n) == emitAll(Battle, SubSeq(log', Len(log) + 1, n))

Joins(c) == c \notin Range(subscribers) /\ c \in Range(subscribers')

\* the type and the agent of each message
Shape(messages) ==
    [k \in DOMAIN messages |->
        <<messages[k].type,
          IF messages[k].type \in {"move", "complete"} THEN messages[k].modelId
          ELSE "none">>]

RECURSIVE AgentShapes(_)
\* per agent, for the first n agents: a move if the agent has a board, then
\* a complete if and only if the agent is complete
AgentShapes(n) ==
    IF n = 0 THEN <<>>
    ELSE AgentShapes(n - 1)
         \o (IF modelStates[models[n]].boardState # NoBoard
             THEN <<(<<"move", models[n]>>)>> ELSE <<>>)
         \o (IF modelStates[models[n]].status = "complete"
             THEN <<(<<"complete", models[n]>>)>> ELSE <<>>)

\* init if and only if the battle is not pending, then the agents, then done
\* if and only if the battle is complete
CatchupShape ==
    (IF status # "pending" THEN <<(<<"init", "none">>)>> ELSE <<>>)
    \o AgentShapes(Len(models))
    \o (IF status = "complete" THEN <<(<<"done", "none">>)>> ELSE <<>>)

\* the message m carries the latest state of the battle
Latest(m) ==
    /\ m.type = "move" => m.board = encodeBoard(modelStates[m.modelId].boardState)
    /\ m.type = "complete" =>
          /\ m.outcome = modelStates[m.modelId].outcome
          /\ m.moves = modelStates[m.modelId].moves
          /\ m.safeRevealed = modelStates[m.modelId].safeRevealed
          /\ m.minesHit = modelStates[m.modelId].minesHit
          /\ m.durationMs = modelStates[m.modelId].durationMs
    /\ m.type = "done" => m.rankings = rankings

\* C20: the catch-up of a client that opens the stream is init iff the
\* battle is not pending, then per agent a synthetic move with its latest
\* board if it has one and a complete iff the agent is complete, then done
\* iff the battle is complete; it is sent to that client only, changes no
\* field of the battle, and makes no persistence call
C20_Catchup ==
    [][\A c \in Clients :
          Joins(c) =>
              /\ Shape(sent'[c]) = CatchupShape
              /\ \A k \in DOMAIN sent'[c] : Latest(sent'[c][k])
              /\ \A d \in Clients \ {c} : sent'[d] = <<>>
              /\ written' = <<>>
              /\ Battle' = Battle
              /\ UNCHANGED <<config, models, boardSeed>>
              /\ subscribers' = Append(subscribers, c)]_vars

\* client c2 has opened the stream of a finished battle that c1 listens to:
\* init, a move and a complete per agent, done
C20_Witness ==
    /\ "c1" \in Range(subscribers)
    /\ Shape(sent["c2"]) = <<(<<"init", "none">>), (<<"move", "m1">>),
                              (<<"complete", "m1">>), (<<"move", "m2">>),
                              (<<"complete", "m2">>), (<<"done", "none">>)>>
    /\ sent["c1"] = <<>>

\* the step in which the listener of client c is unsubscribed
Leaves(c) == c \in Range(subscribers) /\ c \notin Range(subscribers')

\* the SSE messages of the events the step emits
EmittedMessages == [k \in DOMAIN Emitted |-> Message(Emitted[k])]

\* C21: unsubscribing removes only that listener and changes nothing of the
\* battle or of the agents' loops, a second call changes nothing, a client
\* that is not subscribed receives no event, and every subscriber receives
\* every event emitted while it is subscribed
C21_Unsubscribe ==
    [][/\ \A c \in Clients :
             Leaves(c) =>
                 /\ subscribers' = SelectSeq(subscribers, LAMBDA d : d # c)
                 /\ unsubscribe(subscribers', c) = subscribers'
                 /\ Battle' = Battle
                 /\ Emitted = <<>>
                 /\ UNCHANGED <<config, models, boardSeed, pc, sim, requests, last>>
       /\ \A c \in Clients :
             /\ (c \notin Range(subscribers) /\ ~Joins(c)) => sent'[c] = <<>>
             /\ (c \in Range(subscribers) /\ ~Leaves(c))
                   => sent'[c] = EmittedMessages]_vars

\* a battle is done after client c1 has unsubscribed, with c2 listening: c2
\* receives the done event and c1 nothing
C21_Witness ==
    /\ subscribers = <<"c2">>
    /\ status = "complete"
    /\ Len(sent["c2"]) = 1
    /\ sent["c2"][1].type = "done"
    /\ sent["c1"] = <<>>
    /\ \E k \in DOMAIN log : log[k].type = "complete"

\* the step is a call of op on the store with an id that no battle has
CallsUnknown(op) ==
    /\ <<genIn, genOut>>' # <<genIn, genOut>>
    /\ genIn'.call = op
    /\ genIn'.battleId # BattleId

\* the step leaves the battle, its subscribers and the agents' loops alone
StoreUntouched ==
    /\ Battle' = Battle
    /\ UNCHANGED <<config, models, boardSeed, subscribers, pc, sim, requests, last>>
    /\ written' = <<>>
    /\ sent' = NoneSent

\* C22: subscribe with an unknown battle id throws battle not found and
\* registers no listener, getBattle with an unknown id finds nothing, and
\* neither changes the battle
C22_UnknownBattle ==
    [][/\ CallsUnknown("subscribe")
            => genOut'.thrown = "Battle not found" /\ StoreUntouched
       /\ CallsUnknown("getBattle")
            => genOut'.thrown = "none" /\ ~genOut'.found /\ StoreUntouched]_vars

\* subscribe was called with the unknown id b2 while the battle was running
\* with a subscriber
C22_Witness ==
    /\ genIn # <<>>
    /\ genIn.call = "subscribe"
    /\ genIn.battleId = "b2"
    /\ genOut.thrown = "Battle not found"
    /\ status = "running"
    /\ subscribers = <<"c1">>

\* a db call rejects in the step
Failing == db'.errors + db'.unhandled > db.errors + db.unhandled

\* C23: a persistence write that rejects never propagates: no rejection is
\* left unhandled, the step in which a write fails changes nothing of the
\* battle, of its subscribers, of the emitted events or of an agent's turn
\* loop, and after a failure emit changes the battle as it does without one
C23_WriteFailureSwallowed ==
    [][/\ db'.unhandled = 0
       /\ Failing =>
             /\ Battle' = Battle
             /\ sent' = NoneSent
             /\ UNCHANGED <<config, models, boardSeed, frameIndices, subscribers, pc,
                            sim, requests, last, log, answered>>
       /\ db.errors > 0 => Battle' = emitAll(Battle, Emitted)]_vars

\* a write failed and the battle is done with the agent's win
C23_Witness ==
    /\ db.errors = 1
    /\ db.unhandled = 0
    /\ db.calls = <<>>
    /\ Len(db.store.frames["m1"]) < frameIndices["m1"] + 1
    /\ status = "complete"
    /\ modelStates["m1"].outcome = "win"
    /\ Len(rankings) = 1

\* the move events emitted for agent a, in order
MoveEventsOf(a) == SelectSeq(log, LAMBDA e : e.type = "move" /\ e.modelId = a)

\* the stored frames of agent a are the empty frame and then the frame of
\* each of its moves, in order
FramesKept(a) ==
    /\ Len(db.store.frames[a]) = Len(MoveEventsOf(a)) + 1
    /\ db.store.frames[a][1].action = "none"
    /\ \A k \in DOMAIN MoveEventsOf(a) :
          /\ db.store.frames[a][k + 1].action = MoveEventsOf(a)[k].action
          /\ db.store.frames[a][k + 1].cell = MoveEventsOf(a)[k].cell
          /\ db.store.frames[a][k + 1].boardState = MoveEventsOf(a)[k].boardState

\* C24: once the battle is done and every db call has settled without an
\* error, the store holds for each agent the empty frame followed by one
\* frame per applied move in order, and one result per agent
C24_FramesPersisted ==
    (status = "complete" /\ db.calls = <<>> /\ db.errors = 0 /\ db.unhandled = 0)
        => /\ \A a \in Agents : FramesKept(a)
           /\ Len(db.store.results) = Cardinality(Agents)
           /\ \A a \in Agents :
                 \E k \in DOMAIN db.store.results : db.store.results[k].modelId = a

\* every turn of agent a so far applied one move and left the game going
OnePerTurn(a) ==
    /\ sim[a].outcome \in {"playing", "stuck"}
    /\ requests[a] = sim[a].moves + (IF pc[a] = "await" THEN 1 ELSE 0)

Computed(a) ==
    [board |-> sim[a].board, outcome |-> sim[a].outcome, moves |-> sim[a].moves,
     safeRevealed |-> sim[a].safeRevealed, minesHit |-> sim[a].minesHit]

\* what the move and complete events of agent a have left in the store: the
\* number of move events, the snapshots of the last one, the result
Stored(a) == [modelStates[a] EXCEPT !.durationMs = 0]

\* the two runs have taken the same responses and the same steps
SamePoint(a, b) == requests[a] = requests[b] /\ pc[a] = pc[b]

EmittedOf(a, t) ==
    SelectSeq(Emitted, LAMBDA e : e.type = t /\ e.modelId = a)

EmittedType(t) == SelectSeq(Emitted, LAMBDA e : e.type = t)

\* the ModelState ms after the move events mv of its agent, one after the
\* other
AfterMoves(ms, mv) ==
    [ms EXCEPT
       !.prevBoardState = IF Len(mv) = 1 THEN ms.boardState
                          ELSE mv[Len(mv) - 1].boardState,
       !.boardState = mv[Len(mv)].boardState,
       !.status = "playing",
       !.moves = ms.moves + Len(mv)]

\* the ModelState ms after the complete event e of its agent
AfterComplete(ms, e) ==
    [ms EXCEPT
       !.status = "complete",
       !.outcome = e.outcome,
       !.moves = e.moves,
       !.safeRevealed = e.safeRevealed,
       !.minesHit = e.minesHit,
       !.durationMs = e.durationMs]

\* the ModelState of agent a changes in the step as its events say
AgentEffect(a) ==
    IF EmittedOf(a, "move") # <<>>
    THEN /\ EmittedOf(a, "complete") = <<>>
         /\ modelStates'[a] = AfterMoves(modelStates[a], EmittedOf(a, "move"))
    ELSE IF EmittedOf(a, "complete") # <<>>
    THEN /\ Len(EmittedOf(a, "complete")) = 1
         /\ modelStates'[a] = AfterComplete(modelStates[a], EmittedOf(a, "complete")[1])
    ELSE modelStates'[a] = modelStates[a]

\* C28: emit(init) sets the status running; emit(move) for an agent sets its
\* prevBoardState to its former boardState, its boardState to the event's,
\* its status to playing and adds 1 to its moves; emit(complete) sets its
\* status complete and copies the event's result; emit(done) sets the status
\* complete and the rankings; every other ModelState and config, models and
\* boardSeed stay as they are
C28_EmitEffects ==
    [][/\ UNCHANGED <<config, models, boardSeed>>
       /\ DOMAIN modelStates' = DOMAIN modelStates
       /\ \A a \in Agents : AgentEffect(a)
       /\ IF EmittedType("done") # <<>>
          THEN status' = "complete" /\ rankings' = EmittedType("done")[1].rankings
          ELSE IF EmittedType("init") # <<>>
          THEN status' = "running" /\ rankings' = rankings
          ELSE status' = status /\ rankings' = rankings]_vars

\* done was emitted after init, an agent's move and its complete event, the
\* other agent having failed
C28_Witness ==
    /\ status = "complete"
    /\ Len(rankings) = 2
    /\ modelStates["m1"].status = "complete"
    /\ modelStates["m1"].moves = 1
    /\ modelStates["m1"].boardState # NoBoard
    /\ modelStates["m1"].prevBoardState = NoBoard
    /\ modelStates["m2"].outcome = "error"
    /\ modelStates["m2"].boardState = NoBoard

\* C29: the emit of an error event changes no field of the battle and
\* makes no persistence call; its message goes to the subscribers of the
\* moment and to nobody else, and the agents' loops are where they were
C29_ErrorBroadcastOnly ==
    [][EmittedType("error") # <<>> =>
          /\ Battle' = Battle
          /\ written' = <<>>
          /\ UNCHANGED <<config, models, boardSeed, frameIndices, db, subscribers, pc,
                         sim, requests, last>>
          /\ \A c \in Clients :
                sent'[c] = IF c \in Range(subscribers) THEN EmittedType("error")
                           ELSE <<>>]_vars

\* done was emitted after an error event that went to the one subscriber of
\* the moment, the agent having completed with a move of its own
C29_Witness ==
    /\ status = "complete"
    /\ sent["c1"] # <<>>
    /\ sent["c1"][1].type = "done"
    /\ sent["c2"] = <<>>
    /\ modelStates["m1"].status = "complete"
    /\ modelStates["m1"].moves = 1
    /\ \E k \in DOMAIN log :
          /\ log[k].type = "error"
          /\ \E j \in DOMAIN log : j > k /\ log[j].type = "complete"

\* the object ref holds in the next state what it holds now
Frozen(ref) == ref # 0 => heap'.objects[ref] = heap.objects[ref]

\* C30: the snapshot a move event carried, and the snapshots the store keeps
\* as boardState and prevBoardState, are objects that no later step changes;
\* none of them is the board the loop plays on
C30_SnapshotsFrozen ==
    [][/\ \A k \in DOMAIN heap.events : Frozen(heap.events[k])
       /\ Frozen(heap.boardState)
       /\ Frozen(heap.prevBoardState)
       /\ \A k \in DOMAIN heap'.events : heap'.events[k] # heap'.board
       /\ heap'.boardState # heap'.board
       /\ heap'.prevBoardState # heap'.board]_vars

\* three moves were applied: the store keeps the snapshots of the second and
\* of the third, and the first snapshot differs from the board as it is now
C30_Witness ==
    /\ heap.moves = 3
    /\ Len(heap.events) = 3
    /\ heap.prevBoardState = heap.events[2]
    /\ heap.boardState = heap.events[3]
    /\ heap.objects[heap.events[1]] # heap.objects[heap.board]
    /\ heap.objects[heap.events[2]] # heap.objects[heap.board]
    /\ heap.objects[heap.events[3]] = heap.objects[heap.board]

\* ------------------------------------------------------------------------
\* C31: the rankings of done: one entry for each agent of the list and no
\* other; outcome, moves, safeRevealed and minesHit of an entry are those of
\* the agent's complete event and of its ModelState, totalSafe is
\* rows*cols - mineCount and score is calculateScore of the entry's values
\* ------------------------------------------------------------------------
\* the entry x carries the values of the record y
SameCounts(x, y) ==
    /\ x.outcome = y.outcome
    /\ x.moves = y.moves
    /\ x.safeRevealed = y.safeRevealed
    /\ x.minesHit = y.minesHit

RankingEntry(x) ==
    /\ x.modelId \in DOMAIN modelStates
    /\ SameCounts(x, modelStates[x.modelId])
    /\ \A i \in DOMAIN log :
         (log[i].type = "complete" /\ log[i].modelId = x.modelId)
             => SameCounts(x, log[i])
    /\ x.totalSafe = config.rows * config.cols - config.mineCount
    /\ x.score = calculateScore(x.outcome, x.safeRevealed, x.moves, x.minesHit,
                                config)

\* C31: once done was emitted, the rankings hold exactly one entry for each
\* element of the agent list, each with the values of that agent's complete
\* event and ModelState, the battle's totalSafe and the score of its values
C31_Rankings ==
    status = "complete" =>
        /\ Len(rankings) = Len(models)
        /\ \A k \in DOMAIN models :
             Cardinality({j \in DOMAIN rankings :
                            rankings[j].modelId = modelIdOf(models[k])}) = 1
        /\ \A j \in DOMAIN rankings : RankingEntry(rankings[j])

\* ------------------------------------------------------------------------
\* C32: the battle status goes pending, running, complete and a ModelState
\* status pending, playing, complete, never back; a complete battle has
\* every ModelState complete with a final outcome
\* ------------------------------------------------------------------------
\* the place of a status in its order
StatusOrder(st) ==
    IF st = "pending" THEN 0 ELSE IF st \in {"running", "playing"} THEN 1 ELSE 2

FinalOutcomes == {"win", "loss", "stuck", "error"}

C32_Step ==
    /\ StatusOrder(status') >= StatusOrder(status)
    /\ \A id \in DOMAIN modelStates :
         StatusOrder(modelStates'[id].status) >= StatusOrder(modelStates[id].status)
    /\ status' = "complete" =>
         \A id \in DOMAIN modelStates :
            /\ modelStates'[id].status = "complete"
            /\ modelStates'[id].outcome \in FinalOutcomes

\* C32: no step of a battle moves the battle status or a ModelState status
\* backwards, and in a complete battle every ModelState is complete with an
\* outcome among win, loss, stuck and error
C32_StatusForward == [][C32_Step]_vars

\* ------------------------------------------------------------------------
\* C33: a final outcome win needs every non-mine cell revealed, no mine
\* revealed and minesHit = 0
\* ------------------------------------------------------------------------
CleanWin(s) ==
    /\ s.board # NoBoard
    /\ \A p \in DOMAIN s.board : s.board[p].isRevealed = ~s.board[p].isMine
    /\ s.minesHit = 0

\* C33: an agent whose runModelSimulation returned win has a board on which
\* exactly the non-mine cells are revealed, and has hit no mine
C33_WinIsClean ==
    \A a \in Agents : (Settled(a) /\ sim[a].outcome = "win") => CleanWin(sim[a])

\* ------------------------------------------------------------------------
\* C34: safeRevealed is the number of revealed non-mine cells of the agent's
\* board and is at most totalSafe
\* ------------------------------------------------------------------------
RevealedSafe(b) ==
    IF b = NoBoard THEN {} ELSE {p \in DOMAIN b : b[p].isRevealed /\ ~b[p].isMine}

\* C34: at every point of a run safeRevealed counts the revealed non-mine
\* cells of the board and does not exceed rows*cols - mineCount
C34_SafeRevealed ==
    \A a \in Agents :
        /\ sim[a].safeRevealed = Cardinality(RevealedSafe(sim[a].board))
        /\ sim[a].safeRevealed <= config.rows * config.cols - config.mineCount

\* ------------------------------------------------------------------------
\* C35: on the boards reached from a fresh board by revealCell and flagCell
\* no cell is both revealed and flagged
\* ------------------------------------------------------------------------
\* C35: no cell of the board is revealed and flagged at once
C35_NeverRevealedAndFlagged ==
    \A p \in DOMAIN Board : ~(Board[p].isRevealed /\ Board[p].isFlagged)

\* ------------------------------------------------------------------------
\* C36: revealCell on an unrevealed, unflagged cell
\* ------------------------------------------------------------------------
RevealedCells(b) == {p \in DOMAIN b : b[p].isRevealed}

\* q is one of the 8 neighbours of c
Adjacent(c, q) ==
    /\ c # q
    /\ c[1] - q[1] \in {-1, 0, 1}
    /\ c[2] - q[2] \in {-1, 0, 1}

RECURSIVE Reach(_, _)
\* the cells reached from the set R by steps that leave cells with
\* adjacentMines = 0
Reach(b, R) ==
    LET N == R \cup {q \in DOMAIN b :
                        \E c \in R : b[c].adjacentMines = 0 /\ Adjacent(c, q)}
    IN  IF N = R THEN R ELSE Reach(b, N)

\* what revealCell(b, p) returned for an unrevealed, unflagged cell p
RevealsRegion(b, p, r) ==
    IF b[p].isMine
    THEN /\ RevealedCells(r.board) = RevealedCells(b) \cup {p}
         /\ r.revealedCount = 1
         /\ r.hitMine
    ELSE /\ RevealedCells(r.board) = RevealedCells(b) \cup Reach(b, {p})
         /\ \A q \in RevealedCells(r.board) \ RevealedCells(b) : ~b[q].isMine
         /\ ~r.hitMine
         /\ r.revealedCount =
                Cardinality(RevealedCells(r.board) \ RevealedCells(b))

\* C36: on every reachable board, revealCell on an unrevealed, unflagged
\* non-mine cell leaves revealed the cells revealed before and the cells
\* reached from the target through cells with adjacentMines = 0, none of them
\* a mine, and returns hitMine = false and the number of cells newly
\* revealed; on a mine it reveals that cell alone and returns 1 and true
C36_RevealRegion ==
    \A p \in DOMAIN Board :
        (~Board[p].isRevealed /\ ~Board[p].isFlagged)
            => RevealsRegion(Board, p, revealCell(Board, p))

\* a reveal has uncovered a zero-region of two cells with its two bordering
\* numbered cells while a numbered cell off the region stays hidden
C36_Witness ==
    /\ genOut # <<>>
    /\ genOut.op = "revealCell"
    /\ genOut.revealedCount = 4
    /\ ~genOut.hitMine
    /\ \E q \in DOMAIN Board :
         ~Board[q].isMine /\ ~Board[q].isRevealed /\ Board[q].adjacentMines > 0
    /\ \E q \in DOMAIN Board : Board[q].isRevealed /\ Board[q].adjacentMines = 0

\* ------------------------------------------------------------------------
\* C37: revealCell on a revealed or flagged cell is a no-op
\* ------------------------------------------------------------------------
\* the call returned r and left the board b as it was
NoOp(b, r) == r = [board |-> b, revealedCount |-> 0, hitMine |-> FALSE]

\* C37: on every reachable board, revealCell on a cell that is revealed or
\* flagged returns revealedCount = 0 and hitMine = false and changes no cell,
\* and so does the same call made again on the board it left
C37_RevealNoOp ==
    \A p \in DOMAIN Board :
        (Board[p].isRevealed \/ Board[p].isFlagged)
            => /\ NoOp(Board, revealCell(Board, p))
               /\ NoOp(Board, revealCell(revealCell(Board, p).board, p))

\* revealCell was called on a revealed cell and returned 0, on a board that
\* also holds a flagged hidden cell and a revealed mine
C37_Witness ==
    /\ genOut # <<>>
    /\ genOut.op = "revealCell"
    /\ genOut.revealedCount = 0
    /\ Board[genOut.cell].isRevealed
    /\ \E q \in DOMAIN Board : Board[q].isFlagged /\ ~Board[q].isRevealed
    /\ \E q \in DOMAIN Board : Board[q].isMine /\ Board[q].isRevealed

\* ------------------------------------------------------------------------
\* C38: flagCell toggles the flag of an unrevealed cell and nothing else;
\* isMine and adjacentMines never change and isRevealed never goes back
\* ------------------------------------------------------------------------
\* f is the board b with the flag of cell p inverted if p is not revealed
Toggled(b, p, f) ==
    /\ DOMAIN f = DOMAIN b
    /\ \A q \in DOMAIN b :
         /\ f[q].isMine = b[q].isMine
         /\ f[q].adjacentMines = b[q].adjacentMines
         /\ f[q].isRevealed = b[q].isRevealed
         /\ f[q].isFlagged =
                (IF q = p /\ ~b[p].isRevealed THEN ~b[q].isFlagged ELSE b[q].isFlagged)

\* the step from board b to board c keeps the mines and the counts and
\* hides no cell
KeepsFixed(b, c) ==
    /\ DOMAIN c = DOMAIN b
    /\ \A q \in DOMAIN b :
         /\ c[q].isMine = b[q].isMine
         /\ c[q].adjacentMines = b[q].adjacentMines
         /\ b[q].isRevealed => c[q].isRevealed

\* the step is a flagCell call on cell p
FlagStep(p) ==
    /\ Toggled(Board, p, Board')
    /\ ~Board[p].isRevealed => flagCell(Board', p) = Board

C38_Step ==
    /\ genOut'.op = "flagCell" => FlagStep(genOut'.cell)
    /\ KeepsFixed(Board, Board')

\* C38: every flagCell call inverts isFlagged of its cell if the cell is not
\* revealed and changes nothing else, changes nothing for a revealed cell,
\* and a second call on the same unrevealed cell gives the board back; no
\* revealCell or flagCell call changes isMine or adjacentMines or hides a
\* revealed cell
C38_FlagToggle == [][C38_Step]_vars

\* flagCell has just taken the flag off a hidden cell again, on a board
\* with a revealed cell
C38_Witness ==
    /\ genOut # <<>>
    /\ genOut.op = "flagCell"
    /\ ~Board[genOut.cell].isFlagged
    /\ ~Board[genOut.cell].isRevealed
    /\ \E q \in DOMAIN Board : Board[q].isRevealed
    /\ \E q \in DOMAIN Board : Board[q].isFlagged

\* ------------------------------------------------------------------------
\* C39: decodeBoard(encodeBoard(board), rows, cols) against getVisibleBoard
\* ------------------------------------------------------------------------
\* characters encodeBoard never writes
Foreign == {"9", "X", " "}

\* the place of the cell <<r, c>> (counted from 1) in the encoded text
TextIndex(ncols, r, c) == (r - 1) * (ncols + 1) + c

\* what the cell <<r, c>> of b decodes to from an intact text: the value
\* getVisibleBoard has for it, M for a revealed mine
Expected(b, visible, r, c) ==
    IF b[<<r - 1, c - 1>>].isRevealed /\ b[<<r - 1, c - 1>>].isMine THEN "M"
    ELSE visible[r][c]

\* d is the decoding of a text of b whose characters at the places in lost
\* are missing or foreign
DecodesTo(b, visible, nrows, ncols, d, lost) ==
    /\ Len(d) = nrows
    /\ \A r \in 1 .. nrows :
         /\ Len(d[r]) = ncols
         /\ \A c \in 1 .. ncols :
              d[r][c] = (IF TextIndex(ncols, r, c) \in lost THEN "H"
                         ELSE Expected(b, visible, r, c))

\* the places of the cells in the text
CellPlaces(nrows, ncols) ==
    {TextIndex(ncols, r, c) : r \in 1 .. nrows, c \in 1 .. ncols}

RoundTrip(b, visible, text, nrows, ncols) ==
    /\ DecodesTo(b, visible, nrows, ncols, decodeBoard(text, nrows, ncols), {})
    /\ \A k \in 0 .. Len(text) :
         DecodesTo(b, visible, nrows, ncols,
                   decodeBoard(SubSeq(text, 1, k), nrows, ncols), k + 1 .. Len(text))
    /\ \A k \in CellPlaces(nrows, ncols) : \A x \in Foreign :
         DecodesTo(b, visible, nrows, ncols,
                   decodeBoard([text EXCEPT ![k] = x], nrows, ncols), {k})

\* C39: for every reachable board, decoding its encoding with the board's
\* rows and cols gives rows x cols values that equal getVisibleBoard cell by
\* cell, except M for a revealed mine; a character that is cut off or is not
\* one of M, F, 0-8 decodes to H
C39_DecodeEncode ==
    RoundTrip(Board, getVisibleBoard(Board), EncodedText(Board), config.rows,
              config.cols)

\* a board with a revealed mine, a revealed count above 0, a flag and a
\* hidden cell
C39_Witness ==
    /\ genOut # <<>>
    /\ \E q \in DOMAIN Board : Board[q].isRevealed /\ Board[q].isMine
    /\ \E q \in DOMAIN Board : Board[q].isRevealed /\ Board[q].adjacentMines > 0
    /\ \E q \in DOMAIN Board : ~Board[q].isRevealed /\ Board[q].isFlagged
    /\ \E q \in DOMAIN Board : ~Board[q].isRevealed /\ ~Board[q].isFlagged

\* ------------------------------------------------------------------------
\* C40: getDelta returns the cells whose visible value changed, each once,
\* with the new value; the delta of a move event is the getDelta of the
\* agent's previous snapshot and the new one
\* ------------------------------------------------------------------------
\* the visible value of a cell: its number if revealed, else F if flagged,
\* else H; H everywhere on a missing board
Shown(b, q) ==
    IF b = NoBoard THEN "H"
    ELSE IF b[q].isRevealed THEN ToString(b[q].adjacentMines)
    ELSE IF b[q].isFlagged THEN "F"
    ELSE "H"

\* d holds one entry for each cell whose visible value differs between prev
\* and curr, with the value curr has, and no other entry
DeltaExact(prev, curr, d) ==
    /\ \A i, j \in DOMAIN d : (d[i][1] = d[j][1] /\ d[i][2] = d[j][2]) => i = j
    /\ {<<d[i][1], d[i][2]>> : i \in DOMAIN d}
           = {q \in DOMAIN curr : Shown(prev, q) # Shown(curr, q)}
    /\ \A i \in DOMAIN d : d[i][3] = Shown(curr, <<d[i][1], d[i][2]>>)

\* the positions of the move events in the log
MovePositions == {i \in DOMAIN log : log[i].type = "move"}

\* the snapshot of the agent's move before the one logged at position i
PreviousSnapshot(i) ==
    IF \E j \in MovePositions : j < i /\ log[j].modelId = log[i].modelId
    THEN log[CHOOSE j \in MovePositions :
                /\ j < i
                /\ log[j].modelId = log[i].modelId
                /\ \A k \in MovePositions :
                     (k < i /\ log[k].modelId = log[i].modelId) => k <= j].boardState
    ELSE NoBoard

\* the boards the move events have carried
Snapshots == {log[i].boardState : i \in MovePositions}

\* C40: for any two snapshots of the run, and for no board and a snapshot,
\* getDelta returns exactly the cells whose visible value differs, each once
\* with the later value; from no board these are the cells that are not
\* hidden; from a board to itself there is none; and the delta sent for each
\* move event is getDelta of the agent's previous snapshot and the new one
C40_Delta ==
    /\ \A curr \in Snapshots :
         /\ \A prev \in Snapshots \cup {NoBoard} :
              DeltaExact(prev, curr, getDelta(prev, curr))
         /\ {<<e[1], e[2]>> : e \in Range(getDelta(NoBoard, curr))}
                = {q \in DOMAIN curr : Shown(curr, q) # "H"}
         /\ getDelta(curr, curr) = <<>>
    /\ \A i \in MovePositions :
         /\ Message(log[i]).delta = getDelta(PreviousSnapshot(i), log[i].boardState)
         /\ Message(log[i]).delta # <<>>

\* three moves were emitted: a flag, a reveal that uncovered several cells
\* and a move that took the flag off again
C40_Witness ==
    /\ Cardinality(MovePositions) = 3
    /\ \E i \in MovePositions : Len(Message(log[i]).delta) >= 3
    /\ \E i \in MovePositions : \E k \in DOMAIN Message(log[i]).delta :
          Message(log[i]).delta[k][3] = "F"
    /\ \E i \in MovePositions : \E k \in DOMAIN Message(log[i]).delta :
          /\ Message(log[i]).delta[k][3] = "H"
          /\ PreviousSnapshot(i) # NoBoard
====
